---- MODULE Spec2Model ----
(***************************************************************************)
(* TrueHour: ForeFlight logbook import (backend/app/routers/flights.py,    *)
(* backend/app/routers/user_data.py) against the PostgreSQL storage, the   *)
(* hours recalculation (backend/app/routers/import_history.py) and the     *)
(* aircraft classifier (backend/app/utils/gear_inference.py).              *)
(*                                                                         *)
(* Spec: concurrent import requests.  SpecHours: the flights table and     *)
(* recalculation requests.  SpecClassifier: one call of the classifier.    *)
(* SpecDelete: imports one after another with delete_flight requests.      *)
(* SpecSave: requests POST /api/user/save.                                 *)
(*                                                                         *)
(* Strings are TLA+ strings; Python's None is the sentinel string None.    *)
(* Optional numbers and dates are records with a "some" flag.  Decimal     *)
(* hours are integers in tenths of an hour.                                *)
(***************************************************************************)
EXTENDS FiniteSets, Integers, Sequences, TLC

\* ------------------------------------------------------------------ bounds
MaxRuns == 2        \* import requests received in one behaviour
NumProcs == 2       \* request contexts the server opens in one behaviour

Procs == 1..NumProcs

\* --------------------------------------------------------- Python strings
None == "<None>"

\* "not value" for an Optional[str]
Falsy(v) == v = None \/ v = ""

\* str(v) inside an f-string
Str(v) == IF v = None THEN "None" ELSE v

UpMap ==
  [a |-> "A", b |-> "B", c |-> "C", d |-> "D", e |-> "E", f |-> "F", g |-> "G",
   h |-> "H", i |-> "I", j |-> "J", k |-> "K", l |-> "L", m |-> "M", n |-> "N",
   o |-> "O", p |-> "P", q |-> "Q", r |-> "R", s |-> "S", t |-> "T", u |-> "U",
   v |-> "V", w |-> "W", x |-> "X", y |-> "Y", z |-> "Z"]

LowMap ==
  [A |-> "a", B |-> "b", C |-> "c", D |-> "d", E |-> "e", F |-> "f", G |-> "g",
   H |-> "h", I |-> "i", J |-> "j", K |-> "k", L |-> "l", M |-> "m", N |-> "n",
   O |-> "o", P |-> "p", Q |-> "q", R |-> "r", S |-> "s", T |-> "t", U |-> "u",
   V |-> "v", W |-> "w", X |-> "x", Y |-> "y", Z |-> "z"]

RECURSIVE Upper(_)
Upper(s) ==
  IF s = "" THEN ""
  ELSE (IF Head(s) \in DOMAIN UpMap THEN UpMap[Head(s)] ELSE Head(s)) \o Upper(Tail(s))

RECURSIVE Lower(_)
Lower(s) ==
  IF s = "" THEN ""
  ELSE (IF Head(s) \in DOMAIN LowMap THEN LowMap[Head(s)] ELSE Head(s)) \o Lower(Tail(s))

StartsWith(s, pre) == Len(s) >= Len(pre) /\ SubSeq(s, 1, Len(pre)) = pre

Contains(s, sub) == \E i \in 1..(Len(s) - Len(sub) + 1) : SubSeq(s, i, i + Len(sub) - 1) = sub

RECURSIVE LStrip(_)
LStrip(s) == IF s # "" /\ Head(s) = " " THEN LStrip(Tail(s)) ELSE s

RECURSIVE RStrip(_)
RStrip(s) ==
  IF s # "" /\ SubSeq(s, Len(s), Len(s)) = " " THEN RStrip(SubSeq(s, 1, Len(s) - 1)) ELSE s

Strip(s) == RStrip(LStrip(s))

RECURSIVE Remove(_, _)
Remove(s, ch) ==
  IF s = "" THEN ""
  ELSE (IF Head(s) = ch THEN "" ELSE Head(s)) \o Remove(Tail(s), ch)

Digits == {"0", "1", "2", "3", "4", "5", "6", "7", "8", "9"}

DigitVal == [d \in Digits |-> CHOOSE n \in 0..9 : ToString(n) = d]

RECURSIVE IsDigits(_)
IsDigits(s) == s = "" \/ (Head(s) \in Digits /\ IsDigits(Tail(s)))

RECURSIVE ToNat(_, _)
ToNat(s, acc) == IF s = "" THEN acc ELSE ToNat(Tail(s), 10 * acc + DigitVal[Head(s)])

\* position of the first occurrence of ch in s, 0 when absent
RECURSIVE IndexOf(_, _, _)
IndexOf(s, ch, i) ==
  IF i > Len(s) THEN 0
  ELSE IF SubSeq(s, i, i) = ch THEN i ELSE IndexOf(s, ch, i + 1)

\* ------------------------------------------------------ coercion helpers
\* hours are kept in tenths
NoneNum == [some |-> FALSE, v |-> 0]
SomeNum(n) == [some |-> TRUE, v |-> n]

\* magnitude of an unsigned decimal literal with at most one fractional digit
UnsignedDecimal(s) ==
  LET dot == IndexOf(s, ".", 1)
      ip == IF dot = 0 THEN s ELSE SubSeq(s, 1, dot - 1)
      fp == IF dot = 0 THEN "" ELSE SubSeq(s, dot + 1, Len(s))
  IN IF (ip = "" /\ fp = "") \/ ~IsDigits(ip) \/ ~IsDigits(fp) \/ Len(fp) > 1
     THEN NoneNum
     ELSE SomeNum(10 * ToNat(ip, 0) + ToNat(fp, 0) * (IF fp = "" THEN 0 ELSE 1))

\* float(value): surrounding blanks, an optional sign, a decimal literal
ParseFloat(value) ==
  LET s == Strip(value)
      neg == s # "" /\ Head(s) = "-"
      body == IF s # "" /\ Head(s) \in {"-", "+"} THEN Tail(s) ELSE s
      mag == UnsignedDecimal(body)
  IN IF ~mag.some THEN NoneNum ELSE IF neg THEN SomeNum(0 - mag.v) ELSE mag

_safe_float(value) ==
  IF value = None \/ value = "" THEN NoneNum ELSE ParseFloat(value)

\* int(float(value)), 0 when invalid; int() truncates towards zero
_safe_int(value) ==
  IF value = None \/ value = "" THEN 0
  ELSE LET x == ParseFloat(value)
       IN IF ~x.some THEN 0
          ELSE IF x.v >= 0 THEN x.v \div 10 ELSE 0 - ((0 - x.v) \div 10)

NoneDate == [some |-> FALSE, y |-> 0, m |-> 0, d |-> 0]

IsLeap(y) == (y % 4 = 0 /\ y % 100 # 0) \/ y % 400 = 0

DaysIn(y, m) ==
  IF m = 2 THEN (IF IsLeap(y) THEN 29 ELSE 28)
  ELSE IF m \in {4, 6, 9, 11} THEN 30 ELSE 31

\* datetime.strptime(s, "%Y-%m-%d").date(), NoneDate on ValueError
Strptime(s) ==
  LET d1 == IndexOf(s, "-", 1)
      rest == IF d1 = 0 THEN "" ELSE SubSeq(s, d1 + 1, Len(s))
      d2 == IndexOf(rest, "-", 1)
      ys == IF d1 = 0 THEN "" ELSE SubSeq(s, 1, d1 - 1)
      ms == IF d2 = 0 THEN "" ELSE SubSeq(rest, 1, d2 - 1)
      ds == IF d2 = 0 THEN "" ELSE SubSeq(rest, d2 + 1, Len(rest))
      ok == /\ d1 # 0 /\ d2 # 0
            /\ Len(ys) = 4 /\ IsDigits(ys)
            /\ Len(ms) \in {1, 2} /\ IsDigits(ms)
            /\ Len(ds) \in {1, 2} /\ IsDigits(ds)
      y == ToNat(ys, 0)
      m == ToNat(ms, 0)
      d == ToNat(ds, 0)
  IN IF ok /\ y >= 1 /\ m \in 1..12 /\ d \in 1..DaysIn(y, m)
     THEN [some |-> TRUE, y |-> y, m |-> m, d |-> d]
     ELSE NoneDate

_safe_date(value) ==
  IF value = None \/ value = "" THEN NoneDate ELSE Strptime(Strip(value))

\* ------------------------------------ Classifier (utils/gear_inference.py)
AnyIn(s, subs) == \E t \in subs : Contains(s, t)

AnyPrefix(s, pres) == \E t \in pres : StartsWith(s, t)

\* variant: the test for the R prefix (R172, R182) is missing
CessnaRetractPrefixesWithoutR ==
  {"210", "T210", "P210", "310", "320", "335", "336", "337", "340",
   "401", "402", "404", "411", "414", "421"}

CessnaRetractPrefixes ==
  {"R", "210", "T210", "P210", "310", "320", "335", "336", "337", "340",
   "401", "402", "404", "411", "414", "421"}

PiperRetractTokens ==
  {"PA-23", "PA-24", "PA-28R", "PA28R", "PA-30", "PA-32R", "PA32R", "PA-34",
   "PA-39", "PA-44", "PA-46", "PA-60", "ARROW", "LANCE", "COMANCHE", "AZTEC",
   "SENECA", "SEMINOLE", "MALIBU", "MERIDIAN", "AEROSTAR", "NAVAJO", "CHEYENNE"}

infer_gear_type(make, model) ==
  IF Falsy(make) \/ Falsy(model) THEN None
  ELSE
    LET make_upper == Strip(Upper(make))
        model_upper == Strip(Upper(model))
    IN IF Contains(make_upper, "CESSNA") \/ Contains(model_upper, "CESSNA") THEN
         (IF AnyPrefix(model_upper, CessnaRetractPrefixes) \/ Contains(model_upper, "CITATION")
          THEN "Retractable" ELSE "Fixed")
       ELSE IF Contains(make_upper, "PIPER") \/ Contains(model_upper, "PIPER") THEN
         (IF AnyIn(model_upper, PiperRetractTokens) THEN "Retractable" ELSE "Fixed")
       ELSE IF AnyIn(make_upper, {"BEECH", "RAYTHEON", "HAWKER"}) THEN
         (IF \/ Contains(model_upper, "SKIPPER")
             \/ (Contains(model_upper, "MUSKETEER") /\ ~Contains(model_upper, "RETRACT"))
             \/ (Contains(model_upper, "SPORT") /\ ~Contains(model_upper, "RETRACT"))
          THEN "Fixed" ELSE "Retractable")
       ELSE IF Contains(make_upper, "MOONEY") THEN "Retractable"
       ELSE IF Contains(make_upper, "CIRRUS") THEN "Fixed"
       ELSE IF Contains(make_upper, "DIAMOND") THEN "Fixed"
       ELSE IF AnyIn(make_upper, {"GRUMMAN", "AMERICAN GENERAL", "GULFSTREAM AMERICAN"}) THEN "Fixed"
       ELSE IF AnyIn(make_upper, {"ROCKWELL", "COMMANDER"}) THEN
         (IF Contains(model_upper, "112") \/ Contains(model_upper, "114")
          THEN "Retractable" ELSE "Fixed")
       ELSE IF Contains(make_upper, "BELLANCA") THEN
         (IF Contains(model_upper, "VIKING") THEN "Retractable" ELSE "Fixed")
       ELSE IF \/ Contains(make_upper, "SOCATA")
               \/ Contains(model_upper, "TOBAGO") \/ Contains(model_upper, "TRINIDAD") THEN
         (IF AnyIn(model_upper, {"TRINIDAD", "TB-20", "TB-21"}) THEN "Retractable" ELSE "Fixed")
       ELSE IF Contains(make_upper, "MAULE") THEN "Fixed"
       ELSE IF AnyIn(model_upper, {"TTX", "COLUMBIA", "CORVALIS"}) THEN "Fixed"
       ELSE None

should_be_complex(make, model, gear_type_in) ==
  IF Falsy(make) \/ Falsy(model) THEN FALSE
  ELSE
    LET gear_type == IF Falsy(gear_type_in) THEN infer_gear_type(make, model) ELSE gear_type_in
        make_upper == Strip(Upper(make))
        model_upper == Strip(Upper(model))
    IN IF gear_type # "Retractable" THEN FALSE
       ELSE \/ (Contains(make_upper, "CESSNA")
                  /\ (StartsWith(model_upper, "R") \/ AnyIn(model_upper, {"210", "310"})))
            \/ (Contains(make_upper, "PIPER") /\ gear_type = "Retractable")
            \/ (AnyIn(make_upper, {"BEECH", "RAYTHEON"}) /\ gear_type = "Retractable")
            \/ Contains(make_upper, "MOONEY")
            \/ (AnyIn(make_upper, {"ROCKWELL", "COMMANDER"}) /\ AnyIn(model_upper, {"112", "114"}))

HpPatterns ==
  {"R182", "182RG", "T182", "TR182", "206", "207", "208", "210",
   "PA-24", "COMANCHE", "PA-28R-200", "PA-28R-201", "ARROW IV", "PA-32",
   "SARATOGA", "LANCE", "SIX", "PA-46", "MALIBU", "MERIDIAN",
   "BONANZA", "BARON", "DUKE",
   "M20J", "M20K", "M20M", "M20R", "M20S", "M20T", "M20U", "SR22", "DA42", "DA62"}

\* variant: the model is matched without upper()
HighPerformanceCaseSensitive(make, model) ==
  IF Falsy(make) \/ Falsy(model) THEN FALSE
  ELSE AnyIn(Strip(model), HpPatterns)

should_be_high_performance(make, model) ==
  IF Falsy(make) \/ Falsy(model) THEN FALSE
  ELSE AnyIn(Strip(Upper(model)), HpPatterns)

\* ------------------------------------------- tail numbers (user_data.py)
SimPrefixes == {"sim", "fsx", "x-plane", "aatd", "batd", "pfcmfd", "ftd"}

\* variant: the prefix test without lower()
IsSimulatorCaseSensitive(tail_number) ==
  IF Falsy(tail_number) THEN FALSE ELSE AnyPrefix(tail_number, SimPrefixes)

_is_simulator(tail_number) ==
  IF Falsy(tail_number) THEN FALSE ELSE AnyPrefix(Lower(tail_number), SimPrefixes)

\* variant: the N test without upper()
IsUsAircraftCaseSensitive(tail_number) ==
  IF Falsy(tail_number) THEN FALSE
  ELSE StartsWith(tail_number, "N") /\ Len(tail_number) >= 2

_is_us_aircraft(tail_number) ==
  IF Falsy(tail_number) THEN FALSE
  ELSE StartsWith(Upper(tail_number), "N") /\ Len(tail_number) >= 2

\* main.normalize_tail
normalize_tail(tail) ==
  LET t == Strip(Upper(tail))
      u == IF StartsWith(t, "N") THEN Tail(t) ELSE t
  IN Remove(Remove(u, "-"), " ")

\* ------------------------------------------------- uploaded export files
\* One CSV line: its raw text and the cells csv.DictReader yields for it.
BlankRow ==
  [AircraftID |-> "", TypeCode |-> "", Make |-> "", Model |-> "", GearType |-> "",
   Date |-> "", From |-> "", To |-> "", TotalTime |-> "", SimulatedFlight |-> "", PIC |-> "",
   Route |-> "", Solo |-> "", Night |-> "", CrossCountry |-> "", ActualInstrument |-> "",
   SimulatedInstrument |-> "", DualGiven |-> "", DualReceived |-> "", HoursComplex |-> "",
   DayTakeoffs |-> "", DayLandingsFullStop |-> "", NightTakeoffs |-> "",
   NightLandingsFullStop |-> "", Approaches |-> "", Distance |-> ""]

TextLine(t) == [text |-> t, row |-> BlankRow]

AircraftLine(tail, tc, make, model, gear) ==
  [text |-> tail \o "," \o tc \o "," \o make \o "," \o model \o "," \o gear,
   row |-> [BlankRow EXCEPT !.AircraftID = tail, !.TypeCode = tc, !.Make = make,
                            !.Model = model, !.GearType = gear]]

FlightLine(date, tail, from, to, total, sim, pic) ==
  [text |-> date \o "," \o tail \o "," \o from \o "," \o to \o "," \o total \o "," \o sim \o "," \o pic,
   row |-> [BlankRow EXCEPT !.Date = date, !.AircraftID = tail, !.From = from, !.To = to,
                            !.TotalTime = total, !.SimulatedFlight = sim, !.PIC = pic]]

\* a flight line with the cells a cross-country requirement looks at
CrossCountryLine(line, route, distance, approaches, solo, night, dual, instrument) ==
  [text |-> line.text \o "," \o route \o "," \o distance \o "," \o approaches \o ","
              \o solo \o "," \o night \o "," \o dual \o "," \o instrument,
   row |-> [line.row EXCEPT !.Route = route, !.Distance = distance,
                            !.Approaches = approaches, !.Solo = solo, !.Night = night,
                            !.DualReceived = dual, !.SimulatedInstrument = instrument]]

AircraftHeader == TextLine("AircraftID,TypeCode,Make,Model,GearType")

FlightsHeader == TextLine("Date,AircraftID,From,To,TotalTime,SimulatedFlight,PIC")

\* both tables; the second flight row repeats the key of the first
FileA ==
  [name |-> "logbook.csv",
   lines |-> << TextLine("ForeFlight Logbook Import"),
                TextLine("Aircraft Table,,,,"),
                AircraftHeader,
                AircraftLine("N1", "P28R", "Piper", "PA-28R-200", "RG"),
                AircraftLine("FSX1", "", "", "", ""),
                TextLine(""),
                TextLine("Flights Table,,,,,,"),
                FlightsHeader,
                FlightLine("2024-01-05", "N1", "KAMW", "KDSM", "1.5", "", "1.5"),
                FlightLine("2024-01-05", "FSX1", "KAMW", "KDSM", "1.5", "0.5", "0.0") >>]

\* flights table only; the first flight of FileA with its tail in lower
\* case and other times; a row without Date; a further valid row, with a
\* route of four airports, a distance of 320 nm and three approaches
FileB ==
  [name |-> "second.csv",
   lines |-> << TextLine("Flights Table,,,,,,"),
                FlightsHeader,
                FlightLine("2024-01-05", "n1", "KAMW", "KDSM", "1.5", "1.0", "0.7"),
                FlightLine("", "G-AB", "KAMW", "KAMW", "1.0", "", ""),
                CrossCountryLine(
                  FlightLine("2024-01-06", "n1", "KAMW", "KAMW", "3.0", "", "3.0"),
                  "KAMW KDSM KALO KAMW", "320", "ILS 30 KAMW;RNAV 12 KDSM;VOR 5 KALO",
                  "3.0", "2.0", "3.0", "1.0") >>]

\* no flights section
FileC ==
  [name |-> "aircraft_only.csv",
   lines |-> << TextLine("Aircraft Table,,,,"),
                AircraftHeader,
                AircraftLine("N1", "P28R", "Piper", "PA-28R-200", "RG") >>]

\* an unparseable date; a blank line; a row with neither TotalTime nor
\* SimulatedFlight; a valid row after them
FileD ==
  [name |-> "invalid_rows.csv",
   lines |-> << TextLine("Flights Table,,,,,,"),
                FlightsHeader,
                FlightLine("01/06/2024", "N2", "KDSM", "KAMW", "1.2", "", ""),
                TextLine(""),
                FlightLine("2024-01-08", "", "KAMW", "KDSM", "", "", ""),
                FlightLine("2024-01-09", "", "KDSM", "KAMW", "0.8", "", "0.8") >>]

\* not a CSV upload
FileN == [name |-> "logbook.txt", lines |-> << >>]

Files == << FileA, FileB, FileC, FileD, FileN >>

FileIds == 1..Len(Files)

EndsWith(s, suf) == Len(s) >= Len(suf) /\ SubSeq(s, Len(s) - Len(suf) + 1, Len(s)) = suf

\* --------------------------------------- Table Splitter (flights.py 369-398)
\* the marker scan; positions are Python's i + 1 (0-based i), -1 when not found
RECURSIVE ScanMarkers(_, _, _)
ScanMarkers(lines, i, aircraft_table_start) ==
  IF i >= Len(lines)
  THEN [aircraft_table_start |-> aircraft_table_start, flights_table_start |-> -1]
  ELSE IF StartsWith(lines[i + 1].text, "Aircraft Table")
  THEN ScanMarkers(lines, i + 1, i + 1)
  ELSE IF StartsWith(lines[i + 1].text, "Flights Table")
  THEN [aircraft_table_start |-> aircraft_table_start, flights_table_start |-> i + 1]
  ELSE ScanMarkers(lines, i + 1, aircraft_table_start)

\* variant: the flights section counts only after an aircraft section
MarkersBothRequired(f) ==
  LET mk == ScanMarkers(Files[f].lines, 0, -1)
  IN IF mk.aircraft_table_start = -1 THEN [mk EXCEPT !.flights_table_start = -1] ELSE mk

Markers(f) == ScanMarkers(Files[f].lines, 0, -1)

\* Python slice lines[a:b] for 0 <= a
Slice(lines, a, b) == SubSeq(lines, a + 1, IF b > Len(lines) THEN Len(lines) ELSE b)

\* csv.DictReader over a block of lines: the first line is the header, blank
\* lines yield no row
RECURSIVE DataRows(_)
DataRows(lines) ==
  IF lines = << >> THEN << >>
  ELSE IF Head(lines).text = "" THEN DataRows(Tail(lines))
  ELSE << Head(lines).row >> \o DataRows(Tail(lines))

DictReader(lines) == IF lines = << >> THEN << >> ELSE DataRows(Tail(lines))

\* rows of the flights table: lines[flights_table_start:]
FlightRows(f) ==
  LET mk == Markers(f)
  IN DictReader(Slice(Files[f].lines, mk.flights_table_start, Len(Files[f].lines)))

\* put(d, k, v): d[k] = v on a dict modelled as a function
Put(d, k, v) == [t \in DOMAIN d \cup {k} |-> IF t = k THEN v ELSE d[t]]

EmptyDict == [t \in {} |-> 0]

RECURSIVE TailDict(_, _)
TailDict(rows, d) ==
  IF rows = << >> THEN d
  ELSE TailDict(Tail(rows),
                IF Falsy(Head(rows).AircraftID) THEN d
                ELSE Put(d, Head(rows).AircraftID, Head(rows)))

\* aircraft_data_dict: the Aircraft Table rows keyed by AircraftID
AircraftDataDict(f) ==
  LET mk == Markers(f)
  IN IF mk.aircraft_table_start # -1 /\ mk.flights_table_start > mk.aircraft_table_start
     THEN TailDict(DictReader(Slice(Files[f].lines, mk.aircraft_table_start,
                                    mk.flights_table_start - 1)), EmptyDict)
     ELSE EmptyDict

\* ------------------------------------- Aircraft Extractor (user_data.py)
\* a Python dict of aircraft fields: absent keys are those not in "keys"
AircraftData(keys, make, model, type_code, gear_type, is_complex, is_high_performance) ==
  [some |-> TRUE, keys |-> keys, make |-> make, model |-> model, type_code |-> type_code,
   gear_type |-> gear_type, is_complex |-> is_complex,
   is_high_performance |-> is_high_performance]

NoData ==
  [some |-> FALSE, keys |-> {}, make |-> None, model |-> None, type_code |-> None,
   gear_type |-> None, is_complex |-> FALSE, is_high_performance |-> FALSE]

OrNone(v) == IF Falsy(v) THEN None ELSE v

OrDefault(v, dflt) == IF Falsy(v) THEN dflt ELSE v

FFKeys == {"make", "model", "type_code", "gear_type"}

RECURSIVE _extract_foreflight_aircraft_data(_, _)
_extract_foreflight_aircraft_data(flights_data, tail_number) ==
  IF flights_data = << >>
  THEN AircraftData(FFKeys, None, None, None, None, FALSE, FALSE)
  ELSE LET flight == Head(flights_data)
       IN IF flight.AircraftID = tail_number /\ (~Falsy(flight.Make) \/ ~Falsy(flight.Model))
          THEN AircraftData(FFKeys, OrNone(flight.Make), OrNone(flight.Model), None, None,
                            FALSE, FALSE)
          ELSE _extract_foreflight_aircraft_data(Tail(flights_data), tail_number)

\* ff_data of user_data.py 272-286
ForeflightData(f, tail_number) ==
  LET table == AircraftDataDict(f)
  IN IF table # EmptyDict /\ tail_number \in DOMAIN table
     THEN LET ac_row == table[tail_number]
          IN AircraftData(FFKeys, OrNone(ac_row.Make), OrNone(ac_row.Model),
                          OrNone(ac_row.TypeCode), OrNone(ac_row.GearType), FALSE, FALSE)
     ELSE _extract_foreflight_aircraft_data(FlightRows(f), tail_number)

\* sim_data of user_data.py 325-341
SimulatorData(f, sim_id) ==
  LET table == AircraftDataDict(f)
  IN IF table # EmptyDict /\ sim_id \in DOMAIN table
     THEN LET ac_row == table[sim_id]
          IN AircraftData({"make", "model", "type_code", "is_simulator"}, OrNone(ac_row.Make),
                          OrDefault(ac_row.Model, "Simulator"), OrDefault(ac_row.TypeCode, "SIM"),
                          None, FALSE, FALSE)
     ELSE AircraftData({"make", "model", "type_code", "is_simulator"}, None, "Simulator", "SIM",
                       None, FALSE, FALSE)

\* the FAA registry snapshot behind db.lookup, keyed by normalized tail
NoRecord == [found |-> FALSE, manufacturer |-> None, model |-> None, series |-> None]

Registry(normalized) ==
  IF normalized = "1"
  THEN [found |-> TRUE, manufacturer |-> "Cessna", model |-> "R182", series |-> "R182"]
  ELSE NoRecord

\* available: the registry database is loaded, DISABLE_FAA_LOOKUP is unset
\* and the lookup raises nothing
_lookup_faa_aircraft(tail_number, enable_lookup, available) ==
  IF ~enable_lookup \/ ~available THEN NoData
  ELSE LET normalized == normalize_tail(tail_number)
           rec == Registry(normalized)
       IN IF normalized = "" \/ ~rec.found THEN NoData
          ELSE LET gear_type == infer_gear_type(rec.manufacturer, rec.model)
               IN AircraftData(FFKeys \cup {"is_complex", "is_high_performance"},
                               rec.manufacturer, rec.model, rec.series, gear_type,
                               should_be_complex(rec.manufacturer, rec.model, gear_type),
                               should_be_high_performance(rec.manufacturer, rec.model))

\* aircraft_data.get(key, False)
GetFlag(data, key, value) == IF key \in data.keys THEN value ELSE FALSE

\* variant: the Classifier is applied to the data of every aircraft
NewAircraftClassified(id, tail_number, aircraft_data, data_source) ==
  LET gear_type == infer_gear_type(aircraft_data.make, aircraft_data.model)
  IN [id |-> id, tail_number |-> tail_number,
      make |-> aircraft_data.make, model |-> aircraft_data.model,
      type_code |-> aircraft_data.type_code, gear_type |-> gear_type,
      is_complex |-> should_be_complex(aircraft_data.make, aircraft_data.model, gear_type),
      is_high_performance |->
        should_be_high_performance(aircraft_data.make, aircraft_data.model),
      is_simulator |-> _is_simulator(tail_number),
      category |-> "rental", data_source |-> data_source]

\* the row _create_user_aircraft inserts
NewAircraft(id, tail_number, aircraft_data, data_source) ==
  [id |-> id, tail_number |-> tail_number,
   make |-> aircraft_data.make, model |-> aircraft_data.model,
   type_code |-> aircraft_data.type_code, gear_type |-> aircraft_data.gear_type,
   is_complex |-> GetFlag(aircraft_data, "is_complex", aircraft_data.is_complex),
   is_high_performance |->
     GetFlag(aircraft_data, "is_high_performance", aircraft_data.is_high_performance),
   is_simulator |-> _is_simulator(tail_number),
   category |-> "rental", data_source |-> data_source]

RowTails(f) == {FlightRows(f)[i].AircraftID : i \in 1..Len(FlightRows(f))} \ {"", None}

\* phase 1: the tails of the flight rows, simulators apart
UniqueTails(f) == {t \in RowTails(f) : ~_is_simulator(t)}

UniqueSimulators(f) == {t \in RowTails(f) : _is_simulator(t)}

\* ------------------------------- Hours Aggregator (routers/import_history.py)
\* Hours are integers in tenths of an hour, distances whole nautical miles.
\* date.toordinal()
DaysBeforeYear(y) == (y - 1) * 365 + ((y - 1) \div 4) - ((y - 1) \div 100) + ((y - 1) \div 400)

RECURSIVE DaysBeforeMonth(_, _)
DaysBeforeMonth(y, m) == IF m <= 1 THEN 0 ELSE DaysBeforeMonth(y, m - 1) + DaysIn(y, m - 1)

Ordinal(date) == DaysBeforeYear(date.y) + DaysBeforeMonth(date.y, date.m) + date.d

\* timedelta(days=60)
WindowDays == 60

\* date.isoformat()
Pad(n, width) == IF width = 2 /\ n < 10 THEN "0" \o ToString(n) ELSE ToString(n)

IsoFormat(date) == ToString(date.y) \o "-" \o Pad(date.m, 2) \o "-" \o Pad(date.d, 2)

\* Decimal(str(value)), 0 for None
_parse_decimal(value) == IF ~value.some THEN 0 ELSE value.v

Min(a, b) == IF a <= b THEN a ELSE b

\* str.split(): the whitespace-separated tokens of s
RECURSIVE Split(_, _, _)
Split(s, cur, out) ==
  IF s = "" THEN (IF cur = "" THEN out ELSE Append(out, cur))
  ELSE IF Head(s) = " " THEN Split(Tail(s), "", IF cur = "" THEN out ELSE Append(out, cur))
  ELSE Split(Tail(s), cur \o Head(s), out)

\* variant: distinct airports are counted
CountDistinctAirports(route) ==
  IF Falsy(route) THEN 0
  ELSE LET segs == Split(route, "", << >>)
       IN Cardinality({segs[i] : i \in {j \in 1..Len(segs) :
                                          StartsWith(segs[j], "K") /\ Len(segs[j]) = 4}})

_count_route_segments(route) ==
  IF Falsy(route) THEN 0
  ELSE LET segs == Split(route, "", << >>)
       IN Cardinality({i \in 1..Len(segs) : StartsWith(segs[i], "K") /\ Len(segs[i]) = 4})

Towered ==
  {"KAMW", "KALO", "KATL", "KORD", "KDFW", "KDEN", "KLAX", "KJFK", "KSFO", "KLAS",
   "KMCO", "KSEA", "KPHX", "KIAH", "KEWR", "KBOS", "KMIA", "KDCA", "KLGA", "KMDW",
   "KBWI", "KDAL", "KSAN", "KSLC", "KPDX", "KOAK", "KSMF", "KSNA", "KAUS", "KRDU",
   "KCVG", "KPIT", "KCLE", "KSTL", "KBNA", "KMSY"}

_is_towered_airport(airport_code) == airport_code \in Towered

\* flight.get(column) or ""
OrEmpty(v) == IF Falsy(v) THEN "" ELSE v

\* len(approaches) when the stored value decodes to a list, else 0
ApproachCount(approaches) == IF approaches.kind = "list" THEN approaches.n ELSE 0

\* flight.get("tail_number") or str(flight.get("aircraft_id") or "")
EvidenceTail(flight) ==
  IF ~Falsy(flight.tail_number) THEN flight.tail_number
  ELSE IF flight.aircraft_id = 0 THEN "" ELSE ToString(flight.aircraft_id)

EvidenceDate(flight) == IF flight.date.some THEN IsoFormat(flight.date) ELSE ""

\* variant: plain assignment in place of "+="
AccumulateLast(acc, x) == x

\* totals[key] += x
Accumulate(acc, x) == acc + x

\* the locals of the first loop before its first iteration (235-254)
Totals0 ==
  [total |-> 0, pic |-> 0, cross_country |-> 0, night |-> 0, solo |-> 0,
   dual_received |-> 0, dual_given |-> 0, simulator_time |-> 0,
   actual_instrument |-> 0, simulated_instrument |-> 0, complex |-> 0,
   complex_dual |-> 0, pic_xc |-> 0, dual_xc |-> 0,
   instrument_dual_airplane |-> 0, instrument_dual_simulator |-> 0,
   instrument_total |-> 0,
   long_xc_completed |-> 0, towered_ops_count |-> 0,
   recent_instrument_time |-> 0, checkride_prep_time |-> 0,
   private_long_xc_flights |-> << >>, keys |-> {}]

\* one iteration of the first loop (256-367)
FirstLoopBody(t, flight, two_months_ago) ==
  LET total_time == _parse_decimal(flight.total_time)
      pic == _parse_decimal(flight.pic_time)
      cross_country == _parse_decimal(flight.cross_country_time)
      night == _parse_decimal(flight.night_time)
      solo == _parse_decimal(flight.solo_time)
      dual_received == _parse_decimal(flight.dual_received_time)
      dual_given == _parse_decimal(flight.dual_given_time)
      simulated_flight == _parse_decimal(flight.simulated_flight_time)
      actual_instrument == _parse_decimal(flight.actual_instrument_time)
      simulated_instrument == _parse_decimal(flight.simulated_instrument_time)
      complex_time == _parse_decimal(flight.complex_time)
      in_window == flight.date.some /\ Ordinal(flight.date) >= two_months_ago
      has_complex_dual == dual_received > 0 /\ complex_time > 0
      has_pic_xc == pic > 0 /\ cross_country > 0
      has_dual_xc == dual_received > 0 /\ cross_country > 0
      has_dual_airplane == dual_received > 0 /\ pic > 0 /\ simulated_instrument > 0
                             /\ simulated_flight = 0
      has_dual_sim == dual_received > 0 /\ simulated_flight > 0 /\ simulated_instrument > 0
      has_recent == dual_received > 0 /\ (actual_instrument > 0 \/ simulated_instrument > 0)
                      /\ simulated_flight = 0 /\ in_window
      has_prep == dual_received > 0 /\ in_window /\ simulated_flight = 0
      distance == _parse_decimal(flight.distance)
      route == OrEmpty(flight.route)
      segments == _count_route_segments(route)
      qualifies == distance >= 150 /\ solo > 0 /\ segments >= 3
      from_airport == OrEmpty(flight.departure_airport)
      to_airport == OrEmpty(flight.arrival_airport)
      day_takeoffs == flight.day_takeoffs
      day_landings == flight.day_landings_full_stop
      ops == (IF solo > 0 /\ _is_towered_airport(from_airport) /\ day_takeoffs > 0
              THEN day_takeoffs ELSE 0)
             + (IF solo > 0 /\ _is_towered_airport(to_airport) /\ day_landings > 0
                THEN day_landings ELSE 0)
  IN [t EXCEPT
        !.total = Accumulate(@, total_time),
        !.pic = Accumulate(@, pic),
        !.cross_country = Accumulate(@, cross_country),
        !.night = Accumulate(@, night),
        !.solo = Accumulate(@, solo),
        !.dual_received = Accumulate(@, dual_received),
        !.dual_given = Accumulate(@, dual_given),
        !.simulator_time = Accumulate(@, simulated_flight),
        !.actual_instrument = Accumulate(@, actual_instrument),
        !.simulated_instrument = Accumulate(@, simulated_instrument),
        !.complex = Accumulate(@, complex_time),
        !.complex_dual = IF has_complex_dual
                         THEN Accumulate(@, Min(dual_received, complex_time)) ELSE @,
        !.pic_xc = IF has_pic_xc THEN Accumulate(@, Min(pic, cross_country)) ELSE @,
        !.dual_xc = IF has_dual_xc THEN Accumulate(@, Min(dual_received, cross_country)) ELSE @,
        !.instrument_dual_airplane =
            IF has_dual_airplane THEN Accumulate(@, Min(dual_received, simulated_instrument))
            ELSE @,
        !.instrument_dual_simulator =
            IF has_dual_sim THEN Accumulate(@, Min(dual_received, simulated_instrument)) ELSE @,
        !.recent_instrument_time =
            IF has_recent
            THEN @ + Min(dual_received, actual_instrument + simulated_instrument) ELSE @,
        !.checkride_prep_time = IF has_prep THEN @ + dual_received ELSE @,
        !.instrument_total = Accumulate(@, actual_instrument + simulated_instrument),
        !.long_xc_completed = IF qualifies THEN 1 ELSE @,
        !.private_long_xc_flights =
            IF qualifies /\ @ = << >>
            THEN << [date |-> EvidenceDate(flight), aircraft_id |-> EvidenceTail(flight),
                     route |-> route, distance |-> distance, type |-> "Solo"] >>
            ELSE @,
        !.towered_ops_count = @ + ops,
        !.keys = @ \cup (IF has_complex_dual THEN {"complex_dual"} ELSE {})
                   \cup (IF has_pic_xc THEN {"pic_xc"} ELSE {})
                   \cup (IF has_dual_xc THEN {"dual_xc"} ELSE {})
                   \cup (IF has_dual_sim THEN {"instrument_dual_simulator"} ELSE {})]

RECURSIVE FirstLoop(_, _, _, _)
FirstLoop(rows, i, t, two_months_ago) ==
  IF i > Len(rows) THEN t
  ELSE FirstLoop(rows, i + 1, FirstLoopBody(t, rows[i], two_months_ago), two_months_ago)

\* CPL night VFR (413-420)
RECURSIVE NightVfr(_, _, _)
NightVfr(rows, i, night_vfr_count) ==
  IF i > Len(rows) THEN night_vfr_count
  ELSE LET night == _parse_decimal(rows[i].night_time)
           solo == _parse_decimal(rows[i].solo_time)
           dual_received == _parse_decimal(rows[i].dual_received_time)
       IN NightVfr(rows, i + 1,
                   IF night > 0 /\ (solo > 0 \/ dual_received > 0)
                   THEN night_vfr_count + night ELSE night_vfr_count)

\* CPL night takeoffs and landings at towered airports (423-436)
RECURSIVE NightTowered(_, _, _)
NightTowered(rows, i, n) ==
  IF i > Len(rows) THEN n
  ELSE LET flight == rows[i]
           night == _parse_decimal(flight.night_time)
           from_airport == OrEmpty(flight.departure_airport)
           to_airport == OrEmpty(flight.arrival_airport)
           night_takeoffs == flight.night_takeoffs
           night_landings == flight.night_landings_full_stop
       IN NightTowered(rows, i + 1,
            [takeoffs |-> n.takeoffs
                            + (IF night > 0 /\ _is_towered_airport(from_airport)
                                    /\ night_takeoffs > 0
                               THEN night_takeoffs ELSE 0),
             landings |-> n.landings
                            + (IF night > 0 /\ _is_towered_airport(to_airport)
                                    /\ night_landings > 0
                               THEN night_landings ELSE 0)])

\* variant: every flight counts as a day flight
IsDayAlways(night, total_time) == TRUE

\* is_day (483)
is_day(night, total_time) == night = 0 \/ total_time > night

\* variant: without the condition on dual_received
NightXcWithoutDual(night, distance, dual_received) == night >= 20 /\ distance >= 100

\* the condition of CPL Req 13 (499)
NightXc(night, distance, dual_received) ==
  night >= 20 /\ distance >= 100 /\ dual_received > 0

\* variant: every qualifying flight is recorded
NotYetMetAlways(flag) == TRUE

\* "if totals[...] == 0:  # Only need one" (470, 485, 500, 517)
NotYetMet(flag) == flag = 0

\* the flags and evidence lists of the third loop before its first iteration
Flags0 ==
  [ir_250nm_xc |-> 0, cpl_2hr_day_xc |-> 0, cpl_2hr_night_xc |-> 0, cpl_300nm_xc |-> 0,
   ir_250nm_xc_flights |-> << >>, cpl_2hr_day_xc_flights |-> << >>,
   cpl_2hr_night_xc_flights |-> << >>, cpl_300nm_xc_flights |-> << >>]

\* one iteration of the third loop (442-527)
ThirdLoopBody(g, flight) ==
  LET distance == _parse_decimal(flight.distance)
      route == OrEmpty(flight.route)
      total_time == _parse_decimal(flight.total_time)
      night == _parse_decimal(flight.night_time)
      solo == _parse_decimal(flight.solo_time)
      dual_received == _parse_decimal(flight.dual_received_time)
      pic == _parse_decimal(flight.pic_time)
      actual_instrument == _parse_decimal(flight.actual_instrument_time)
      simulated_instrument == _parse_decimal(flight.simulated_instrument_time)
      approach_count == ApproachCount(flight.approaches)
      segments == _count_route_segments(route)
      has_instrument_time == actual_instrument > 0 \/ simulated_instrument > 0
      base == [date |-> EvidenceDate(flight), aircraft_id |-> EvidenceTail(flight),
               route |-> route, distance |-> distance]
      ir == distance >= 250 /\ approach_count >= 3 /\ segments >= 3 /\ has_instrument_time
              /\ NotYetMet(g.ir_250nm_xc)
      day == is_day(night, total_time) /\ total_time >= 20 /\ distance >= 100 /\ dual_received > 0
               /\ NotYetMet(g.cpl_2hr_day_xc)
      ngt == NightXc(night, distance, dual_received) /\ NotYetMet(g.cpl_2hr_night_xc)
      far == distance >= 300 /\ segments >= 3 /\ (solo > 0 \/ (pic > 0 /\ dual_received > 0))
               /\ NotYetMet(g.cpl_300nm_xc)
  IN [g EXCEPT
        !.ir_250nm_xc = IF ir THEN 1 ELSE @,
        !.ir_250nm_xc_flights =
            IF ir THEN Append(@, [date |-> base.date, aircraft_id |-> base.aircraft_id,
                                  route |-> route, distance |-> distance,
                                  approach_count |-> approach_count])
            ELSE @,
        !.cpl_2hr_day_xc = IF day THEN 1 ELSE @,
        !.cpl_2hr_day_xc_flights =
            IF day THEN Append(@, [date |-> base.date, aircraft_id |-> base.aircraft_id,
                                   route |-> route, distance |-> distance,
                                   duration |-> total_time])
            ELSE @,
        !.cpl_2hr_night_xc = IF ngt THEN 1 ELSE @,
        !.cpl_2hr_night_xc_flights =
            IF ngt THEN Append(@, [date |-> base.date, aircraft_id |-> base.aircraft_id,
                                   route |-> route, distance |-> distance,
                                   duration |-> night])
            ELSE @,
        !.cpl_300nm_xc = IF far THEN 1 ELSE @,
        !.cpl_300nm_xc_flights = IF far THEN Append(@, base) ELSE @]

RECURSIVE ThirdLoop(_, _, _)
ThirdLoop(rows, i, g) ==
  IF i > Len(rows) THEN g ELSE ThirdLoop(rows, i + 1, ThirdLoopBody(g, rows[i]))

\* hours_dict as flights.py's caller and the history table see it (235-539):
\* the metric map, the keys a defaultdict holds only once touched, and the
\* evidence map
HoursDict(rows, today) ==
  LET two_months_ago == Ordinal(today) - WindowDays
      t == FirstLoop(rows, 1, Totals0, two_months_ago)
      n == NightTowered(rows, 1, [takeoffs |-> 0, landings |-> 0])
      g == ThirdLoop(rows, 1, Flags0)
  IN [total |-> t.total, pic |-> t.pic, cross_country |-> t.cross_country,
      night |-> t.night, solo |-> t.solo, dual_received |-> t.dual_received,
      dual_given |-> t.dual_given, simulator_time |-> t.simulator_time,
      actual_instrument |-> t.actual_instrument,
      simulated_instrument |-> t.simulated_instrument, complex |-> t.complex,
      complex_dual |-> t.complex_dual, pic_xc |-> t.pic_xc, dual_xc |-> t.dual_xc,
      instrument_dual_airplane |-> t.instrument_dual_airplane,
      instrument_dual_simulator |-> t.instrument_dual_simulator,
      instrument_total |-> t.instrument_total,
      private_long_xc |-> t.long_xc_completed,
      private_towered_ops |-> Min(t.towered_ops_count, 3),
      recent_instrument |-> t.recent_instrument_time,
      ir_250nm_xc |-> g.ir_250nm_xc,
      cpl_sim_instrument_training |->
        t.instrument_dual_airplane + Min(t.instrument_dual_simulator, 50),
      cpl_sim_instrument_airplane |-> t.instrument_dual_airplane,
      cpl_complex_turbine_taa |-> t.complex_dual,
      cpl_2hr_day_xc |-> g.cpl_2hr_day_xc,
      cpl_2hr_night_xc |-> g.cpl_2hr_night_xc,
      cpl_checkride_prep_recent |-> t.checkride_prep_time,
      cpl_solo_se |-> t.solo,
      cpl_300nm_xc |-> g.cpl_300nm_xc,
      cpl_night_vfr |-> NightVfr(rows, 1, 0),
      cpl_night_takeoffs_towered |-> Min(n.takeoffs, 10),
      cpl_night_landings_towered |-> Min(n.landings, 10),
      optional_keys |-> t.keys,
      _qualifying_flights |->
        [private_long_xc |-> t.private_long_xc_flights,
         ir_250nm_xc |-> g.ir_250nm_xc_flights,
         cpl_2hr_day_xc |-> g.cpl_2hr_day_xc_flights,
         cpl_2hr_night_xc |-> g.cpl_2hr_night_xc_flights,
         cpl_300nm_xc |-> g.cpl_300nm_xc_flights]]

\* the row appended to import_history (541-557)
Snapshot(rows, today) ==
  [import_type |-> "recalculation", file_name |-> None, flights_imported |-> Len(rows),
   hours_imported |-> HoursDict(rows, today),
   notes |-> "Recalculated from database flights"]

\* variant: the new snapshot replaces the table's rows
InsertSnapshotReplacing(history, snapshot) == << snapshot >>

\* INSERT INTO import_history
InsertSnapshot(history, snapshot) == Append(history, snapshot)

\* variant: an empty result is not told apart
NoFlightsNever(rows) == FALSE

\* "if not flights" (232)
NoFlights(rows) == Len(rows) = 0

\* the sequences SELECT * FROM flights ORDER BY date may return: every
\* arrangement of the table's rows with non-decreasing dates
Arrangements(n) ==
  {perm \in [1..n -> 1..n] : \A i, j \in 1..n : i # j => perm[i] # perm[j]}

OrderByDate(table) ==
  {perm \in Arrangements(Len(table)) :
     \A i \in 1..(Len(perm) - 1) :
       Ordinal(table[perm[i]].date) <= Ordinal(table[perm[i + 1]].date)}

Rows(table, perm) == [i \in 1..Len(perm) |-> table[perm[i]]]

\* ----------------------------------------------------------------- state
VARIABLES
  aircraft,            \* table aircraft, in insertion order; id = position
  flights,             \* table flights, in insertion order
  import_history,      \* table import_history (hours snapshots)
  enable_faa_lookup,   \* user_settings.enable_faa_lookup
  loc,                 \* per request: position and locals of import_flights
  runs_started,        \* number of import requests received
  completed,           \* files whose import has returned a result
  faa_log,             \* per aircraft id: whether the registry was asked and answered
  lookup_calls,        \* tails handed to _lookup_faa_aircraft
  classifier_calls,    \* tails whose make/model reached the Classifier
  today,               \* datetime.now().date()
  rc,                  \* the request POST /api/import-history/recalculate
  cl,                  \* one call of the Classifier: arguments and results
  sv,                  \* the request POST /api/user/save
  user_sessions        \* table user_sessions: the session ids saved

vars == << aircraft, flights, import_history, enable_faa_lookup, loc, runs_started,
           completed, faa_log, lookup_calls, classifier_calls, today, rc, cl, sv,
           user_sessions >>

storage == << aircraft, flights, import_history >>

NoLookup == [called |-> FALSE, available |-> FALSE]

NoResult ==
  [status |-> 0, detail |-> "", imported |-> 0, skipped |-> 0, errors |-> << >>,
   aircraft_created |-> EmptyDict]

\* prior, created, outcome, seen_n and recalcs record the run for the
\* properties: files completed before it began, aircraft ids it created, the
\* fate of each row, the size of flights when it fetched the hashes, and the
\* number of times it called the recalculation
IdleLoc ==
  [pc |-> "idle", rid |-> 0, file |-> 0, enable |-> FALSE,
   todo_tails |-> {}, todo_sims |-> {}, cur |-> "", cur_data |-> NoData,
   cur_src |-> "", cur_log |-> NoLookup, aircraft_map |-> EmptyDict,
   existing_hash_set |-> {}, import_hashes |-> {}, idx |-> 0,
   imported |-> 0, skipped |-> 0, errors |-> << >>,
   aircraft_id |-> 0, recalc_n |-> 0, recalc_rows |-> << >>, result |-> NoResult,
   prior |-> {}, created |-> {}, outcome |-> << >>, seen_n |-> 0, recalcs |-> 0]

Day(y, m, d) == [some |-> TRUE, y |-> y, m |-> m, d |-> d]

\* the day the imports of one behaviour run on
ImportDays == {Day(2024, 1, 10)}

IdleRc == [pc |-> "idle", n |-> 0, rows |-> << >>, status |-> 0, detail |-> ""]

IdleCl ==
  [pc |-> "idle", make |-> None, model |-> None, gear_type |-> None,
   is_complex |-> FALSE, is_high_performance |-> FALSE]

\* data: the request body; created records, for the properties, the
\* aircraft ids the request created
IdleSv ==
  [pc |-> "idle", n |-> 0, data |-> 0, session_id |-> None, enable |-> FALSE,
   todo_tails |-> {}, todo_sims |-> {}, idx |-> 0, count |-> 0, status |-> 0,
   created |-> {}]

Init ==
  /\ aircraft = << >>
  /\ flights = << >>
  /\ import_history = << >>
  /\ enable_faa_lookup \in BOOLEAN
  /\ loc = [p \in Procs |-> IdleLoc]
  /\ runs_started = 0
  /\ completed = {}
  /\ faa_log = << >>
  /\ lookup_calls = {}
  /\ classifier_calls = {}
  /\ today \in ImportDays
  /\ rc = IdleRc
  /\ sv = IdleSv
  /\ user_sessions = {}
  /\ cl = IdleCl

\* ------------------------------------------------ import_flights, by step
Set(p, l) == loc' = [loc EXCEPT ![p] = l]

\* where the extraction loops go next (user_data.py 262, 315, 350)
AfterAircraft(l) ==
  [l EXCEPT !.pc = IF l.todo_tails # {} THEN "ac_check"
                   ELSE IF l.todo_sims # {} THEN "sim_check" ELSE "hashes",
            !.cur = "", !.cur_data = NoData, !.cur_src = "", !.cur_log = NoLookup]

\* variant: the recalculation is called whatever the count of imported rows
AfterRowAlwaysRecalc(l) ==
  [l EXCEPT !.pc = IF l.idx <= Len(FlightRows(l.file)) THEN "row" ELSE "recalc_read",
            !.aircraft_id = 0]

\* where the row loop goes next (flights.py 428, 536)
AfterRow(l) ==
  [l EXCEPT !.pc = IF l.idx <= Len(FlightRows(l.file)) THEN "row"
                   ELSE IF l.imported > 0 THEN "recalc_read" ELSE "finish",
            !.aircraft_id = 0]

\* SELECT id FROM aircraft WHERE UPPER(tail_number) = UPPER($1)
AircraftByTail(tail) ==
  {i \in 1..Len(aircraft) : Upper(aircraft[i].tail_number) = Upper(tail)}

\* the unique index on aircraft.tail_number rejects the insert
TailTaken(tail) == \E i \in 1..Len(aircraft) : aircraft[i].tail_number = tail

\* variant: flights.import_hash without its unique constraint
HashNeverTaken(h) == FALSE

\* the constraint flights_import_hash_key rejects the insert
HashTaken(h) == \E i \in 1..Len(flights) : flights[i].import_hash = h

\* flights.py 359-421: the upload is read and split, the settings are read;
\* a request takes the first free context
Begin(p, f) ==
  /\ loc[p].pc = "idle"
  /\ \A q \in Procs : q < p => loc[q].pc # "idle"
  /\ runs_started < MaxRuns
  /\ runs_started' = runs_started + 1
  /\ LET l == [IdleLoc EXCEPT !.rid = runs_started + 1, !.file = f, !.prior = completed]
     IN IF ~EndsWith(Files[f].name, ".csv")
        THEN Set(p, [l EXCEPT !.pc = "failed",
                              !.result = [NoResult EXCEPT !.status = 400,
                                                          !.detail = "File must be a CSV"]])
        ELSE IF Markers(f).flights_table_start = -1
        THEN Set(p, [l EXCEPT !.pc = "failed",
                              !.result = [NoResult EXCEPT !.status = 500,
                                   !.detail = "Failed to import flights: 'Flights Table' header not found"]])
        ELSE Set(p, AfterAircraft([l EXCEPT !.enable = enable_faa_lookup,
                                            !.todo_tails = UniqueTails(f),
                                            !.todo_sims = UniqueSimulators(f)]))
  /\ UNCHANGED << storage, enable_faa_lookup, today, sv, user_sessions, rc, cl, completed, faa_log, lookup_calls, classifier_calls >>

\* user_data.py 262-303: the existence check of one tail and, for a new
\* tail, the data gathered for its insert
AcCheck(p) ==
  /\ loc[p].pc = "ac_check"
  /\ \E tail_number \in loc[p].todo_tails :
       LET l == [loc[p] EXCEPT !.todo_tails = @ \ {tail_number}]
           existing == AircraftByTail(tail_number)
       IN IF existing # {}
          THEN /\ \E id \in existing :
                    Set(p, AfterAircraft([l EXCEPT !.aircraft_map = Put(@, tail_number, id)]))
               /\ UNCHANGED << lookup_calls, classifier_calls >>
          ELSE \E available \in BOOLEAN :
                 LET ff_data == ForeflightData(l.file, tail_number)
                     asked == _is_us_aircraft(tail_number) /\ l.enable
                     found == IF asked
                              THEN _lookup_faa_aircraft(tail_number, l.enable, available)
                              ELSE NoData
                 IN /\ Set(p, [l EXCEPT !.pc = "ac_insert", !.cur = tail_number,
                                 !.cur_data = IF found.some THEN found ELSE ff_data,
                                 !.cur_src = IF found.some THEN "faa" ELSE "foreflight",
                                 !.cur_log = [called |-> asked, available |-> available]])
                    /\ lookup_calls' = IF asked THEN lookup_calls \cup {tail_number}
                                       ELSE lookup_calls
                    /\ classifier_calls' = IF found.some THEN classifier_calls \cup {tail_number}
                                           ELSE classifier_calls
  /\ UNCHANGED << storage, enable_faa_lookup, today, sv, user_sessions, rc, cl, runs_started, completed, faa_log >>

\* the INSERT of _create_user_aircraft and the handling of its failure
\* (user_data.py 305-312 and 343-348)
CreateAircraft(p) ==
  LET l == loc[p]
      id == Len(aircraft) + 1
  IN IF TailTaken(l.cur)
     THEN /\ Set(p, AfterAircraft(l))
          /\ UNCHANGED << aircraft, faa_log >>
     ELSE /\ aircraft' = Append(aircraft, NewAircraft(id, l.cur, l.cur_data, l.cur_src))
          /\ faa_log' = Append(faa_log, l.cur_log)
          /\ Set(p, AfterAircraft([l EXCEPT !.aircraft_map = Put(@, l.cur, id),
                                            !.created = @ \cup {id}]))

AcInsert(p) ==
  /\ loc[p].pc = "ac_insert"
  /\ CreateAircraft(p)
  /\ UNCHANGED << flights, import_history, enable_faa_lookup, today, sv, user_sessions, rc, cl, runs_started, completed,
                  lookup_calls, classifier_calls >>

\* user_data.py 315-341: the existence check of one simulator id
SimCheck(p) ==
  /\ loc[p].pc = "sim_check"
  /\ \E sim_id \in loc[p].todo_sims :
       LET l == [loc[p] EXCEPT !.todo_sims = @ \ {sim_id}]
           existing == AircraftByTail(sim_id)
       IN IF existing # {}
          THEN \E id \in existing :
                 Set(p, AfterAircraft([l EXCEPT !.aircraft_map = Put(@, sim_id, id)]))
          ELSE Set(p, [l EXCEPT !.pc = "sim_insert", !.cur = sim_id,
                                !.cur_data = SimulatorData(l.file, sim_id),
                                !.cur_src = "manual", !.cur_log = NoLookup])
  /\ UNCHANGED << storage, enable_faa_lookup, today, sv, user_sessions, rc, cl, runs_started, completed, faa_log,
                  lookup_calls, classifier_calls >>

SimInsert(p) ==
  /\ loc[p].pc = "sim_insert"
  /\ CreateAircraft(p)
  /\ UNCHANGED << flights, import_history, enable_faa_lookup, today, sv, user_sessions, rc, cl, runs_started, completed,
                  lookup_calls, classifier_calls >>

\* flights.py 424-426: the hashes already persisted
FetchHashes(p) ==
  /\ loc[p].pc = "hashes"
  /\ Set(p, AfterRow([loc[p] EXCEPT
         !.existing_hash_set = {flights[i].import_hash : i \in 1..Len(flights)},
         !.idx = 1, !.seen_n = Len(flights)]))
  /\ UNCHANGED << storage, enable_faa_lookup, today, sv, user_sessions, rc, cl, runs_started, completed, faa_log,
                  lookup_calls, classifier_calls >>

\* ---------------------------------------- Duplicate Filter and row loop
\* variant: the PIC time is hashed too
ImportHashWithPic(row) ==
  Str(row.Date) \o "_" \o Str(row.From) \o "_" \o Str(row.To) \o "_" \o Str(row.TotalTime)
    \o "_" \o Str(row.PIC)

\* f"{Date}_{From}_{To}_{TotalTime}" (flights.py 446)
ImportHash(row) ==
  Str(row.Date) \o "_" \o Str(row.From) \o "_" \o Str(row.To) \o "_" \o Str(row.TotalTime)

\* enumerate(reader, start=flights_table_start + 2)
RowNum(l) == Markers(l.file).flights_table_start + 2 + (l.idx - 1)

RowError(row_num, msg) == [row |-> row_num, msg |-> msg]

MsgMissingDate == "Missing required field (Date)"
MsgMissingTime == "Missing both TotalTime and SimulatedFlight"
MsgDuplicate == "Duplicate flight (already imported)"
MsgInvalidDate == "Invalid date format"
MsgUnique == "duplicate key value violates unique constraint \"flights_import_hash_key\""
MsgRecalc == "Warning: Failed to recalculate hours: 404: No flights found"

\* variant: break instead of continue
SkipAndStop(l, msg, kind) ==
  [l EXCEPT !.errors = Append(@, RowError(RowNum(l), msg)),
            !.skipped = @ + 1, !.idx = @ + 1,
            !.outcome = Append(@, kind),
            !.pc = IF l.imported > 0 THEN "recalc_read" ELSE "finish",
            !.aircraft_id = 0]

\* errors.append(...); skipped += 1; continue
Skip(l, msg, kind) ==
  AfterRow([l EXCEPT !.errors = Append(@, RowError(RowNum(l), msg)),
                     !.skipped = @ + 1, !.idx = @ + 1,
                     !.outcome = Append(@, kind)])

\* variant: the Distance cell is stored
DistanceColumnFromCsv(row) ==
  IF _safe_float(row.Distance).some THEN SomeNum(_safe_float(row.Distance).v \div 10)
  ELSE NoneNum

\* flights.distance after the INSERT of flights.py 479-489, which does not
\* name the column
DistanceColumn(row) == NoneNum

\* the row flights.py 479-528 inserts, with the columns the Hours
\* Aggregator reads; the statement names no distance column, which stays
\* NULL, and approaches holds json.dumps of the cell's text
FlightRecord(l, row) ==
  LET simulated_flight_time == _safe_float(row.SimulatedFlight)
  IN [aircraft_id |-> l.aircraft_id,
      tail_number |-> row.AircraftID,
      date |-> _safe_date(row.Date),
      departure_airport |-> row.From,
      arrival_airport |-> row.To,
      route |-> row.Route,
      total_time |-> _safe_float(row.TotalTime),
      pic_time |-> _safe_float(row.PIC),
      night_time |-> _safe_float(row.Night),
      solo_time |-> _safe_float(row.Solo),
      cross_country_time |-> _safe_float(row.CrossCountry),
      actual_instrument_time |-> _safe_float(row.ActualInstrument),
      simulated_instrument_time |-> _safe_float(row.SimulatedInstrument),
      simulated_flight_time |-> simulated_flight_time,
      dual_given_time |-> _safe_float(row.DualGiven),
      dual_received_time |-> _safe_float(row.DualReceived),
      complex_time |-> _safe_float(row.HoursComplex),
      day_takeoffs |-> _safe_int(row.DayTakeoffs),
      day_landings_full_stop |-> _safe_int(row.DayLandingsFullStop),
      night_takeoffs |-> _safe_int(row.NightTakeoffs),
      night_landings_full_stop |-> _safe_int(row.NightLandingsFullStop),
      approaches |-> IF Falsy(row.Approaches) THEN [kind |-> "null", n |-> 0]
                     ELSE [kind |-> "string", n |-> 0],
      distance |-> DistanceColumn(row),
      is_simulator_session |-> simulated_flight_time.some /\ simulated_flight_time.v > 0,
      import_hash |-> ImportHash(row),
      src |-> [rid |-> l.rid, file |-> l.file, idx |-> l.idx]]

\* flights.py 431-476: validation, duplicate check, date parse and the
\* aircraft lookup of one row
RowStep(p) ==
  /\ loc[p].pc = "row"
  /\ LET l == loc[p]
         row == FlightRows(l.file)[l.idx]
         import_hash == ImportHash(row)
         hashed == [l EXCEPT !.import_hashes = @ \cup {import_hash}]
         found == IF Falsy(row.AircraftID) THEN {} ELSE AircraftByTail(row.AircraftID)
     IN IF Falsy(row.Date) THEN Set(p, Skip(l, MsgMissingDate, "missing_date"))
        ELSE IF Falsy(row.TotalTime) /\ Falsy(row.SimulatedFlight)
        THEN Set(p, Skip(l, MsgMissingTime, "missing_time"))
        ELSE IF import_hash \in l.existing_hash_set \/ import_hash \in l.import_hashes
        THEN Set(p, Skip(l, MsgDuplicate, "duplicate"))
        ELSE IF ~_safe_date(row.Date).some
        THEN Set(p, Skip(hashed, MsgInvalidDate, "invalid_date"))
        ELSE \E id \in (IF found = {} THEN {0} ELSE found) :
               Set(p, [hashed EXCEPT !.pc = "row_insert", !.aircraft_id = id])
  /\ UNCHANGED << storage, enable_faa_lookup, today, sv, user_sessions, rc, cl, runs_started, completed, faa_log,
                  lookup_calls, classifier_calls >>

\* variant: the counter of imported rows is left as it is
PersistedUncounted(l) == [l EXCEPT !.idx = @ + 1, !.outcome = Append(@, "persisted")]

\* imported += 1 (529) and on to the next row
Persisted(l) ==
  [l EXCEPT !.imported = @ + 1, !.idx = @ + 1, !.outcome = Append(@, "persisted")]

\* flights.py 479-533: the INSERT of one row; a constraint violation is
\* caught by the row's except clause
RowInsert(p) ==
  /\ loc[p].pc = "row_insert"
  /\ LET l == loc[p]
         row == FlightRows(l.file)[l.idx]
     IN IF HashTaken(ImportHash(row))
        THEN /\ Set(p, Skip(l, MsgUnique, "insert_failed"))
             /\ UNCHANGED flights
        ELSE /\ flights' = Append(flights, FlightRecord(l, row))
             /\ Set(p, AfterRow(Persisted(l)))
  /\ UNCHANGED << aircraft, import_history, enable_faa_lookup, today, sv, user_sessions, rc, cl, runs_started, completed,
                  faa_log, lookup_calls, classifier_calls >>

\* import_history.py 228-233: SELECT * FROM flights; an empty table raises,
\* which flights.py 541-542 turns into a warning
RecalcRead(p) ==
  /\ loc[p].pc = "recalc_read"
  /\ IF NoFlights(flights)
     THEN Set(p, [loc[p] EXCEPT !.pc = "finish", !.recalcs = @ + 1,
                                !.errors = Append(@, RowError(0, MsgRecalc))])
     ELSE \E perm \in OrderByDate(flights) :
            Set(p, [loc[p] EXCEPT !.pc = "recalc_write", !.recalcs = @ + 1,
                                  !.recalc_n = Len(flights),
                                  !.recalc_rows = Rows(flights, perm)])
  /\ UNCHANGED << storage, enable_faa_lookup, today, sv, user_sessions, rc, cl, runs_started, completed, faa_log,
                  lookup_calls, classifier_calls >>

\* import_history.py 541-557: the snapshot is appended to import_history
RecalcWrite(p) ==
  /\ loc[p].pc = "recalc_write"
  /\ import_history' = InsertSnapshot(import_history,
                                      Snapshot(loc[p].recalc_rows, today))
  /\ Set(p, [loc[p] EXCEPT !.pc = "finish"])
  /\ UNCHANGED << aircraft, flights, enable_faa_lookup, today, sv, user_sessions, rc, cl, runs_started, completed, faa_log,
                  lookup_calls, classifier_calls >>

AircraftCreated(a) ==
  [id |-> a.id, tail_number |-> a.tail_number, make |-> a.make, model |-> a.model,
   data_source |-> a.data_source]

\* flights.py 544-563: the response is assembled from aircraft_map
Finish(p) ==
  /\ loc[p].pc = "finish"
  /\ LET l == loc[p]
     IN Set(p, [l EXCEPT !.pc = "done",
                  !.result = [status |-> 200, detail |-> "", imported |-> l.imported,
                              skipped |-> l.skipped, errors |-> l.errors,
                              aircraft_created |->
                                [t \in DOMAIN l.aircraft_map |->
                                   AircraftCreated(aircraft[l.aircraft_map[t]])]]])
  /\ completed' = completed \cup {loc[p].file}
  /\ UNCHANGED << storage, enable_faa_lookup, today, sv, user_sessions, rc, cl, runs_started, faa_log, lookup_calls,
                  classifier_calls >>

Next ==
  \E p \in Procs :
    \/ \E f \in FileIds : Begin(p, f)
    \/ AcCheck(p)
    \/ AcInsert(p)
    \/ SimCheck(p)
    \/ SimInsert(p)
    \/ FetchHashes(p)
    \/ RowStep(p)
    \/ RowInsert(p)
    \/ RecalcRead(p)
    \/ RecalcWrite(p)
    \/ Finish(p)

Spec == Init /\ [][Next]_vars

\* ------------------------------------ the flights table and the aggregator
MaxFlights == 3     \* rows of the flights table in one behaviour
MaxRecalcs == 1     \* recalculation requests received in one behaviour

\* the days a recalculation runs on: 60 and 61 days after 2024-01-10
Days == {Day(2024, 3, 10), Day(2024, 3, 11)}

\* Rows of the flights table.  row holds the CSV cells import_flights
\* converts; distance is the value of the column flights.distance, which
\* import_flights leaves NULL and which is populated outside it; approaches
\* is the length of the JSON array in the column flights.approaches, 0 for
\* the value import_flights stores.
StoredPool ==
  << \* solo 150 nm cross-country with four stops, before the window
     [row |-> [BlankRow EXCEPT !.Date = "2024-01-05", !.AircraftID = "N1",
                 !.From = "KAMW", !.To = "KAMW", !.Route = "KAMW KDSM KALO KAMW",
                 !.TotalTime = "3.0", !.PIC = "3.0", !.CrossCountry = "3.0",
                 !.Solo = "1.0", !.DayTakeoffs = "2", !.DayLandingsFullStop = "2"],
      distance |-> SomeNum(160), approaches |-> 0],
     \* solo cross-country over three stops, two of them the same airport
     [row |-> [BlankRow EXCEPT !.Date = "2024-01-10", !.AircraftID = "N1",
                 !.From = "KAMW", !.To = "KDSM", !.Route = "KAMW KDSM KAMW",
                 !.TotalTime = "2.0", !.PIC = "2.0", !.CrossCountry = "1.0",
                 !.Solo = "2.0", !.DayTakeoffs = "1", !.DayLandingsFullStop = "1"],
      distance |-> SomeNum(150), approaches |-> 0],
     \* solo flight whose route has two airport tokens and one other token
     [row |-> [BlankRow EXCEPT !.Date = "2024-01-07", !.AircraftID = "",
                 !.From = "KAMW", !.To = "KDSM", !.Route = "KAMW IA27 KDSM",
                 !.TotalTime = "1.0", !.PIC = "1.0", !.Solo = "1.0"],
      distance |-> SomeNum(200), approaches |-> 0],
     \* instrument training on the first day of the window of 2024-03-10
     [row |-> [BlankRow EXCEPT !.Date = "2024-01-10", !.AircraftID = "N2",
                 !.From = "KAMW", !.To = "KALO", !.TotalTime = "1.0",
                 !.DualReceived = "1.0", !.ActualInstrument = "0.4"],
      distance |-> NoneNum, approaches |-> 0],
     \* instrument training inside the window, the student acting as PIC
     [row |-> [BlankRow EXCEPT !.Date = "2024-02-20", !.AircraftID = "N2",
                 !.From = "KDSM", !.To = "KAMW", !.TotalTime = "1.5", !.PIC = "1.5",
                 !.CrossCountry = "0.5", !.DualReceived = "1.5",
                 !.ActualInstrument = "0.2", !.SimulatedInstrument = "1.0"],
      distance |-> NoneNum, approaches |-> 0],
     \* instrument training dated after both days
     [row |-> [BlankRow EXCEPT !.Date = "2024-04-01", !.AircraftID = "N2",
                 !.From = "KDSM", !.To = "KALO", !.TotalTime = "1.0",
                 !.DualReceived = "1.0", !.SimulatedInstrument = "0.5"],
      distance |-> NoneNum, approaches |-> 0],
     \* negative durations in the CSV cells
     [row |-> [BlankRow EXCEPT !.Date = "2024-02-21", !.AircraftID = "N1",
                 !.From = "KALO", !.To = "KAMW", !.TotalTime = "-1.5", !.PIC = "-1.0",
                 !.CrossCountry = "2.0"],
      distance |-> NoneNum, approaches |-> 0],
     \* instrument training by day over 300 nm with three approaches, the
     \* student acting as PIC
     [row |-> [BlankRow EXCEPT !.Date = "2024-02-25", !.AircraftID = "N2",
                 !.From = "KAMW", !.To = "KAMW", !.Route = "KAMW KDSM KALO KAMW",
                 !.TotalTime = "2.5", !.PIC = "2.5", !.DualReceived = "2.5",
                 !.SimulatedInstrument = "1.0", !.DayTakeoffs = "1"],
      distance |-> SomeNum(300), approaches |-> 3],
     \* training flight of two hours, all of them at night, over 100 nm
     [row |-> [BlankRow EXCEPT !.Date = "2024-02-26", !.AircraftID = "N2",
                 !.From = "KAMW", !.To = "KALO", !.TotalTime = "2.0", !.Night = "2.0",
                 !.DualReceived = "2.0"],
      distance |-> SomeNum(100), approaches |-> 0],
     \* solo flight with two hours of night over 250 nm and three approaches;
     \* a negative count of day takeoffs in the CSV cell
     [row |-> [BlankRow EXCEPT !.Date = "2024-01-12", !.AircraftID = "N1",
                 !.From = "KALO", !.To = "KDSM", !.Route = "KALO KAMW KDSM",
                 !.TotalTime = "3.0", !.PIC = "3.0", !.Night = "2.0", !.Solo = "3.0",
                 !.ActualInstrument = "0.5", !.DayTakeoffs = "-2",
                 !.DayLandingsFullStop = "1"],
      distance |-> SomeNum(250), approaches |-> 3] >>

\* the stored row of pool entry k
StoredFlight(k) ==
  [FlightRecord([IdleLoc EXCEPT !.idx = k], StoredPool[k].row)
     EXCEPT !.distance = StoredPool[k].distance,
            !.approaches = IF StoredPool[k].approaches > 0
                           THEN [kind |-> "list", n |-> StoredPool[k].approaches]
                           ELSE @]

HoursInit ==
  /\ aircraft = << >>
  /\ flights = << >>
  /\ import_history = << >>
  /\ enable_faa_lookup = TRUE
  /\ loc = [p \in Procs |-> IdleLoc]
  /\ runs_started = 0
  /\ completed = {}
  /\ faa_log = << >>
  /\ lookup_calls = {}
  /\ classifier_calls = {}
  /\ today \in Days
  /\ rc = IdleRc
  /\ sv = IdleSv
  /\ user_sessions = {}
  /\ cl = IdleCl

\* a row is inserted into flights (by import_flights for the entries
\* without distance)
StoreFlight(k) ==
  /\ Len(flights) < MaxFlights
  /\ ~HashTaken(StoredFlight(k).import_hash)
  /\ flights' = Append(flights, StoredFlight(k))
  /\ UNCHANGED << aircraft, import_history, enable_faa_lookup, loc, runs_started, completed,
                  faa_log, lookup_calls, classifier_calls, today, sv, user_sessions, rc, cl >>

\* import_history.py 227-233: the request reads the flights; an empty
\* result ends it with 404
RecalculateRead ==
  /\ rc.pc \in {"idle", "done"}
  /\ rc.n < MaxRecalcs
  /\ LET r == [IdleRc EXCEPT !.n = rc.n + 1]
     IN IF NoFlights(flights)
        THEN rc' = [pc |-> "done", n |-> r.n, rows |-> << >>, status |-> 404,
                    detail |-> "No flights found"]
        ELSE \E perm \in OrderByDate(flights) :
               rc' = [r EXCEPT !.pc = "computed", !.rows = perm]
  /\ UNCHANGED << storage, enable_faa_lookup, loc, runs_started, completed, faa_log,
                  lookup_calls, classifier_calls, today, sv, user_sessions, cl >>

\* import_history.py 235-571: the snapshot is computed and inserted
RecalculateWrite ==
  /\ rc.pc = "computed"
  /\ import_history' = InsertSnapshot(import_history, Snapshot(Rows(flights, rc.rows), today))
  /\ rc' = [rc EXCEPT !.pc = "done", !.status = 200]
  /\ UNCHANGED << aircraft, flights, enable_faa_lookup, loc, runs_started, completed,
                  faa_log, lookup_calls, classifier_calls, today, sv, user_sessions, cl >>

HoursNext ==
  \/ \E k \in 1..Len(StoredPool) : StoreFlight(k)
  \/ RecalculateRead
  \/ RecalculateWrite

SpecHours == HoursInit /\ [][HoursNext]_vars

\* --------------------------------------------------- the Classifier alone
Makes == {None, "", "Cessna", "Piper", "Cirrus", "Mooney", "Maule", "Lancair", "Socata"}

Models ==
  {None, "", "R182", "172S", "SR22", "PA-28R-200", "Piper Arrow", "Columbia 400",
   "TB-20 Trinidad", "M20J", "Sr22t ", "RV-7"}

ClassifierInit ==
  /\ aircraft = << >>
  /\ flights = << >>
  /\ import_history = << >>
  /\ enable_faa_lookup = TRUE
  /\ loc = [p \in Procs |-> IdleLoc]
  /\ runs_started = 0
  /\ completed = {}
  /\ faa_log = << >>
  /\ lookup_calls = {}
  /\ classifier_calls = {}
  /\ today \in ImportDays
  /\ rc = IdleRc
  /\ sv = IdleSv
  /\ user_sessions = {}
  /\ cl \in {[IdleCl EXCEPT !.pc = "called", !.make = make, !.model = model] :
               make \in Makes, model \in Models}

\* the three calls of user_data.py 176-187
Classify ==
  /\ cl.pc = "called"
  /\ LET gear_type == infer_gear_type(cl.make, cl.model)
     IN cl' = [cl EXCEPT !.pc = "returned",
                         !.gear_type = gear_type,
                         !.is_complex = should_be_complex(cl.make, cl.model, gear_type),
                         !.is_high_performance = should_be_high_performance(cl.make, cl.model)]
  /\ UNCHANGED << storage, enable_faa_lookup, loc, runs_started, completed, faa_log,
                  lookup_calls, classifier_calls, today, sv, user_sessions, rc >>

ClassifierNext == Classify

SpecClassifier == ClassifierInit /\ [][ClassifierNext]_vars

\* ------------------------- imports one after another and delete_flight
\* DELETE /api/flights/{flight_id} (flights.py 278-283) for the flight stored
\* at position i; a request for an id that is not stored changes nothing
DeleteFlight(i) ==
  /\ i \in 1..Len(flights)
  /\ flights' = SubSeq(flights, 1, i - 1) \o SubSeq(flights, i + 1, Len(flights))
  /\ UNCHANGED << aircraft, import_history, enable_faa_lookup, loc, runs_started, completed,
                  faa_log, lookup_calls, classifier_calls, today, rc, cl, sv, user_sessions >>

\* an upload is received when no other import runs; flights are deleted at
\* any time
DeleteNext ==
  \/ \E p \in Procs, f \in FileIds :
       /\ \A q \in Procs : loc[q].pc \in {"idle", "failed", "done"}
       /\ Begin(p, f)
  \/ \E p \in Procs : AcCheck(p)
  \/ \E p \in Procs : AcInsert(p)
  \/ \E p \in Procs : SimCheck(p)
  \/ \E p \in Procs : SimInsert(p)
  \/ \E p \in Procs : FetchHashes(p)
  \/ \E p \in Procs : RowStep(p)
  \/ \E p \in Procs : RowInsert(p)
  \/ \E p \in Procs : RecalcRead(p)
  \/ \E p \in Procs : RecalcWrite(p)
  \/ \E p \in Procs : Finish(p)
  \/ \E i \in 1..Len(flights) : DeleteFlight(i)

SpecDelete == Init /\ [][DeleteNext]_vars

\* ------------------------------------- POST /api/user/save (user_data.py)
MaxSaves == 2       \* save requests received in one behaviour

\* int(value) of a string: surrounding blanks, an optional sign, digits
IntLiteral(value) ==
  LET s == Strip(value)
      neg == s # "" /\ Head(s) = "-"
      body == IF s # "" /\ Head(s) \in {"-", "+"} THEN Tail(s) ELSE s
  IN IF body = "" \/ ~IsDigits(body) THEN NoneNum
     ELSE IF neg THEN SomeNum(0 - ToNat(body, 0)) ELSE SomeNum(ToNat(body, 0))

\* user_data._safe_int: None when falsy or invalid; a NULL count is held as
\* 0, the value the Hours Aggregator reads it as
user_data_safe_int(value) ==
  IF Falsy(value) THEN 0
  ELSE IF IntLiteral(value).some THEN IntLiteral(value).v ELSE 0

\* user_data._safe_float
user_data_safe_float(value) == IF value = None THEN NoneNum ELSE ParseFloat(value)

\* datetime.strptime(s, "%m/%d/%Y").date(), NoneDate on ValueError
StrptimeMDY(s) ==
  LET d1 == IndexOf(s, "/", 1)
      rest == IF d1 = 0 THEN "" ELSE SubSeq(s, d1 + 1, Len(s))
      d2 == IndexOf(rest, "/", 1)
      ms == IF d1 = 0 THEN "" ELSE SubSeq(s, 1, d1 - 1)
      ds == IF d2 = 0 THEN "" ELSE SubSeq(rest, 1, d2 - 1)
      ys == IF d2 = 0 THEN "" ELSE SubSeq(rest, d2 + 1, Len(rest))
      ok == /\ d1 # 0 /\ d2 # 0
            /\ Len(ys) = 4 /\ IsDigits(ys)
            /\ Len(ms) \in {1, 2} /\ IsDigits(ms)
            /\ Len(ds) \in {1, 2} /\ IsDigits(ds)
      y == ToNat(ys, 0)
      m == ToNat(ms, 0)
      d == ToNat(ds, 0)
  IN IF ok /\ y >= 1 /\ m \in 1..12 /\ d \in 1..DaysIn(y, m)
     THEN [some |-> TRUE, y |-> y, m |-> m, d |-> d]
     ELSE NoneDate

\* user_data._safe_date: ISO format first, then M/D/YYYY
user_data_safe_date(value) ==
  IF Falsy(value) THEN NoneDate
  ELSE IF Strptime(value).some THEN Strptime(value) ELSE StrptimeMDY(value)

\* f"{Date}_{From}_{To}_{TotalTime}" (477)
SaveImportHash(flight) ==
  Str(flight.Date) \o "_" \o Str(flight.From) \o "_" \o Str(flight.To) \o "_"
    \o Str(flight.TotalTime)

\* the row _save_flights inserts (429-478); the statement names neither
\* tail_number nor distance
SaveFlightRecord(flight, aircraft_id, idx) ==
  [aircraft_id |-> aircraft_id,
   tail_number |-> None,
   date |-> user_data_safe_date(flight.Date),
   departure_airport |-> flight.From,
   arrival_airport |-> flight.To,
   route |-> flight.Route,
   total_time |-> user_data_safe_float(flight.TotalTime),
   pic_time |-> user_data_safe_float(flight.PIC),
   night_time |-> user_data_safe_float(flight.Night),
   solo_time |-> user_data_safe_float(flight.Solo),
   cross_country_time |-> user_data_safe_float(flight.CrossCountry),
   actual_instrument_time |-> user_data_safe_float(flight.ActualInstrument),
   simulated_instrument_time |-> user_data_safe_float(flight.SimulatedInstrument),
   simulated_flight_time |-> user_data_safe_float(flight.SimulatedFlight),
   dual_given_time |-> user_data_safe_float(flight.DualGiven),
   dual_received_time |-> user_data_safe_float(flight.DualReceived),
   complex_time |-> user_data_safe_float(flight.HoursComplex),
   day_takeoffs |-> user_data_safe_int(flight.DayTakeoffs),
   day_landings_full_stop |-> user_data_safe_int(flight.DayLandingsFullStop),
   night_takeoffs |-> user_data_safe_int(flight.NightTakeoffs),
   night_landings_full_stop |-> user_data_safe_int(flight.NightLandingsFullStop),
   approaches |-> IF Falsy(flight.Approaches) THEN [kind |-> "null", n |-> 0]
                  ELSE [kind |-> "string", n |-> 0],
   distance |-> NoneNum,
   is_simulator_session |->
     AnyPrefix(Lower(flight.AircraftID), {"sim", "fsx", "x-plane", "aatd", "batd"}),
   import_hash |-> SaveImportHash(flight),
   src |-> [rid |-> 0, file |-> 0, idx |-> idx]]

\* One flight of a request body: the cells of a parsed logbook row.
SaveFlightDict(date, tail, from, to, total, sim) ==
  [BlankRow EXCEPT !.Date = date, !.AircraftID = tail, !.From = from, !.To = to,
                   !.TotalTime = total, !.SimulatedFlight = sim]

\* data.flights of the request bodies; data.aircraft and data.budget_state
\* are absent in all of them.  1: an airplane flight and a simulator session
\* with a date in M/D/YYYY; 2: simulated flight time logged under an airplane
\* tail; 3: the first flight of 1 again; 4: a session on a simulator device
\* with no simulated flight time, and an airplane flight; 5: no flights
SaveBodies ==
  << << SaveFlightDict("2024-03-01", "N1", "KAMW", "KDSM", "1.2", ""),
        SaveFlightDict("03/03/2024", "FSX1", "KAMW", "KAMW", "0.5", "0.5") >>,
     << SaveFlightDict("2024-03-02", "N1", "KDSM", "KAMW", "1.0", "1.0") >>,
     << SaveFlightDict("2024-03-01", "N1", "KAMW", "KDSM", "1.2", "") >>,
     << SaveFlightDict("2024-03-04", "SIM2", "KALO", "KALO", "1.0", ""),
        SaveFlightDict("2024-03-05", "G-AB", "KALO", "KAMW", "0.8", "0") >>,
     << >> >>

SaveInit ==
  /\ aircraft = << >>
  /\ flights = << >>
  /\ import_history = << >>
  /\ enable_faa_lookup \in BOOLEAN
  /\ loc = [p \in Procs |-> IdleLoc]
  /\ runs_started = 0
  /\ completed = {}
  /\ faa_log = << >>
  /\ lookup_calls = {}
  /\ classifier_calls = {}
  /\ today \in ImportDays
  /\ rc = IdleRc
  /\ sv = IdleSv
  /\ user_sessions = {}
  /\ cl = IdleCl

\* where the request goes after an aircraft or a flight (262, 315, 412, 514)
SaveAfter(s) ==
  [s EXCEPT !.pc = IF s.todo_tails # {} THEN "aircraft"
                   ELSE IF s.todo_sims # {} THEN "simulators"
                   ELSE IF s.idx <= Len(SaveBodies[s.data]) THEN "flights"
                   ELSE "session"]

\* user_data.py 487-502, 247-258: the session id (header: the value of
\* X-Session-ID), the settings and the tails of data.flights; a request
\* begins when the one before it has ended
SaveBegin(d, header) ==
  /\ sv.pc \in {"idle", "done"}
  /\ sv.n < MaxSaves
  /\ LET flights_data == SaveBodies[d]
         tails == {flights_data[i].AircraftID : i \in 1..Len(flights_data)} \ {"", None}
     IN sv' = SaveAfter([IdleSv EXCEPT
                !.n = sv.n + 1, !.data = d,
                !.session_id = IF header = None THEN "uuid4-" \o ToString(sv.n + 1)
                               ELSE header,
                !.enable = enable_faa_lookup,
                !.todo_tails = {t \in tails : ~_is_simulator(t)},
                !.todo_sims = {t \in tails : _is_simulator(t)},
                !.idx = 1])
  /\ UNCHANGED << storage, enable_faa_lookup, loc, runs_started, completed, faa_log,
                  lookup_calls, classifier_calls, today, rc, cl, user_sessions >>

\* user_data.py 262-312 for one tail: the existence check, the data from the
\* flights (the save path passes no Aircraft Table), the registry lookup and
\* the insert
SaveAircraft ==
  /\ sv.pc = "aircraft"
  /\ \E tail_number \in sv.todo_tails :
       LET s == [sv EXCEPT !.todo_tails = @ \ {tail_number}]
           id == Len(aircraft) + 1
       IN IF AircraftByTail(tail_number) # {} \/ TailTaken(tail_number)
          THEN /\ sv' = SaveAfter(s)
               /\ UNCHANGED << aircraft, faa_log, lookup_calls, classifier_calls >>
          ELSE \E available \in BOOLEAN :
                 LET ff_data == _extract_foreflight_aircraft_data(SaveBodies[s.data],
                                                                  tail_number)
                     asked == _is_us_aircraft(tail_number) /\ s.enable
                     found == IF asked
                              THEN _lookup_faa_aircraft(tail_number, s.enable, available)
                              ELSE NoData
                 IN /\ aircraft' = Append(aircraft,
                          NewAircraft(id, tail_number,
                                      IF found.some THEN found ELSE ff_data,
                                      IF found.some THEN "faa" ELSE "foreflight"))
                    /\ faa_log' = Append(faa_log, [called |-> asked, available |-> available])
                    /\ lookup_calls' = IF asked THEN lookup_calls \cup {tail_number}
                                       ELSE lookup_calls
                    /\ classifier_calls' = IF found.some THEN classifier_calls \cup {tail_number}
                                           ELSE classifier_calls
                    /\ sv' = SaveAfter([s EXCEPT !.created = @ \cup {id}])
  /\ UNCHANGED << flights, import_history, enable_faa_lookup, loc, runs_started, completed,
                  today, rc, cl, user_sessions >>

\* user_data.py 315-348 for one simulator id, with the default sim_data
SaveSimulator ==
  /\ sv.pc = "simulators"
  /\ \E sim_id \in sv.todo_sims :
       LET s == [sv EXCEPT !.todo_sims = @ \ {sim_id}]
           id == Len(aircraft) + 1
           sim_data == AircraftData({"make", "model", "type_code", "is_simulator"}, None,
                                    "Simulator", "SIM", None, FALSE, FALSE)
       IN IF AircraftByTail(sim_id) # {} \/ TailTaken(sim_id)
          THEN /\ sv' = SaveAfter(s)
               /\ UNCHANGED << aircraft, faa_log >>
          ELSE /\ aircraft' = Append(aircraft, NewAircraft(id, sim_id, sim_data, "manual"))
               /\ faa_log' = Append(faa_log, NoLookup)
               /\ sv' = SaveAfter([s EXCEPT !.created = @ \cup {id}])
  /\ UNCHANGED << flights, import_history, enable_faa_lookup, loc, runs_started, completed,
                  lookup_calls, classifier_calls, today, rc, cl, user_sessions >>

\* user_data.py 412-479 for one flight: the aircraft lookup and the INSERT;
\* a violation of flights_import_hash_key ends the request with 500 (540-546)
\* and leaves the rows inserted before it
SaveFlight ==
  /\ sv.pc = "flights"
  /\ LET flight == SaveBodies[sv.data][sv.idx]
         tail_number == flight.AircraftID
         found == IF ~Falsy(tail_number)
                     /\ ~AnyPrefix(Lower(tail_number),
                                   {"sim", "fsx", "x-plane", "aatd", "batd", "pfcmfd"})
                  THEN AircraftByTail(tail_number) ELSE {}
     IN IF HashTaken(SaveImportHash(flight))
        THEN /\ sv' = [sv EXCEPT !.pc = "done", !.status = 500]
             /\ UNCHANGED flights
        ELSE \E aircraft_id \in (IF found = {} THEN {0} ELSE found) :
               /\ flights' = Append(flights, SaveFlightRecord(flight, aircraft_id, sv.idx))
               /\ sv' = SaveAfter([sv EXCEPT !.idx = @ + 1, !.count = @ + 1])
  /\ UNCHANGED << aircraft, import_history, enable_faa_lookup, loc, runs_started, completed,
                  faa_log, lookup_calls, classifier_calls, today, rc, cl, user_sessions >>

\* user_data.py 514-535: the session row is upserted and the request returns
SaveSession ==
  /\ sv.pc = "session"
  /\ user_sessions' = user_sessions \cup {sv.session_id}
  /\ sv' = [sv EXCEPT !.pc = "done", !.status = 200]
  /\ UNCHANGED << storage, enable_faa_lookup, loc, runs_started, completed, faa_log,
                  lookup_calls, classifier_calls, today, rc, cl >>

SaveNext ==
  \/ \E d \in 1..Len(SaveBodies), header \in {None, "s1"} : SaveBegin(d, header)
  \/ SaveAircraft
  \/ SaveSimulator
  \/ SaveFlight
  \/ SaveSession

SpecSave == SaveInit /\ [][SaveNext]_vars

\* ------------------------------------------------------------ properties
Returned(p) == loc[p].pc = "done"

RowsOf(p) == FlightRows(loc[p].file)

\* the flights table rows this run inserted
PersistedBy(p) == {i \in 1..Len(flights) : flights[i].src.rid = loc[p].rid}

RowPersisted(p, j) ==
  \E i \in 1..Len(flights) : flights[i].src.rid = loc[p].rid /\ flights[i].src.idx = j

\* the CSV row a stored flight came from
SourceRow(fl) == FlightRows(fl.src.file)[fl.src.idx]

KeyOf(row) == << row.Date, row.From, row.To, row.TotalTime >>

\* the row passes the required-field checks and gets a hash
Hashed(row) == ~Falsy(row.Date) /\ ~(Falsy(row.TotalTime) /\ Falsy(row.SimulatedFlight))

CountOutcome(p, kinds) ==
  Cardinality({j \in 1..Len(loc[p].outcome) : loc[p].outcome[j] \in kinds})

InvalidKinds == {"missing_date", "missing_time", "invalid_date"}

\* C1: when import_flights is run again on a file whose import has already
\* returned, the second run creates no aircraft, reports no created aircraft,
\* persists no flight and reports every flight row as a duplicate.
C1_SecondImportIdempotent ==
  \A p \in Procs :
    (Returned(p) /\ loc[p].file \in loc[p].prior) =>
      /\ loc[p].created = {}
      /\ DOMAIN loc[p].result.aircraft_created = {}
      /\ PersistedBy(p) = {}
      /\ loc[p].result.imported = 0
      /\ Len(loc[p].result.errors) = Len(RowsOf(p))
      /\ \A k \in 1..Len(loc[p].result.errors) : loc[p].result.errors[k].msg = MsgDuplicate

\* C2: a row that gets a hash and has the same (Date, From, To, TotalTime) as
\* a different row hashed earlier in the batch, or as a flight already stored
\* when the run read the stored hashes, has the same hash as that row, is
\* rejected as a duplicate and is not persisted.
EarlierInBatch(p, j) ==
  {i \in 1..(j - 1) : /\ Hashed(RowsOf(p)[i])
                      /\ KeyOf(RowsOf(p)[i]) = KeyOf(RowsOf(p)[j])
                      /\ RowsOf(p)[i] # RowsOf(p)[j]}

AlreadyStored(p, j) ==
  {i \in 1..loc[p].seen_n : /\ KeyOf(SourceRow(flights[i])) = KeyOf(RowsOf(p)[j])
                            /\ SourceRow(flights[i]) # RowsOf(p)[j]}

C2_SameKeyRejected ==
  \A p \in Procs : \A j \in 1..Len(loc[p].outcome) :
    (Hashed(RowsOf(p)[j]) /\ (EarlierInBatch(p, j) # {} \/ AlreadyStored(p, j) # {})) =>
      /\ \A i \in EarlierInBatch(p, j) : ImportHash(RowsOf(p)[i]) = ImportHash(RowsOf(p)[j])
      /\ \A i \in AlreadyStored(p, j) : flights[i].import_hash = ImportHash(RowsOf(p)[j])
      /\ loc[p].outcome[j] = "duplicate"
      /\ ~RowPersisted(p, j)

\* one run rejected a row against its own batch only, another against storage only
C2_Witness ==
  /\ \E p \in Procs : \E j \in 1..Len(loc[p].outcome) :
       /\ EarlierInBatch(p, j) # {} /\ AlreadyStored(p, j) = {}
       /\ loc[p].outcome[j] = "duplicate"
  /\ \E p \in Procs : \E j \in 1..Len(loc[p].outcome) :
       /\ EarlierInBatch(p, j) = {} /\ AlreadyStored(p, j) # {}
       /\ loc[p].outcome[j] = "duplicate"

\* C3: however two imports interleave, no two stored flights share an
\* import_hash; a run whose insert is refused by the constraint records the
\* row as skipped with an error, does not persist it, and goes on to return.
C3_NoTwinFlights ==
  /\ \A i, j \in 1..Len(flights) : i # j => flights[i].import_hash # flights[j].import_hash
  /\ \A p \in Procs :
       /\ \A j \in 1..Len(loc[p].outcome) :
            loc[p].outcome[j] = "insert_failed" =>
              /\ ~RowPersisted(p, j)
              /\ \E k \in 1..Len(loc[p].errors) :
                   loc[p].errors[k] =
                     RowError(Markers(loc[p].file).flights_table_start + 1 + j, MsgUnique)
              /\ loc[p].skipped + loc[p].imported = Len(loc[p].outcome)
       /\ (\E j \in 1..Len(loc[p].outcome) : loc[p].outcome[j] = "insert_failed") =>
            loc[p].pc # "failed"
       /\ Returned(p) => /\ Len(loc[p].outcome) = Len(RowsOf(p))
                         /\ loc[p].result.status = 200

\* two runs of one file have both returned, and one of them lost a row to the other
C3_Witness ==
  \E p, q \in Procs :
    /\ p # q /\ Returned(p) /\ Returned(q) /\ loc[p].file = loc[q].file
    /\ \E j \in 1..Len(loc[p].outcome) :
         loc[p].outcome[j] = "insert_failed" /\ loc[q].outcome[j] = "persisted"

\* C4: the result counts rows rejected as duplicates apart from rows skipped
\* for invalid data: the counter skipped holds rows of one kind only.
C4_SeparateCounters ==
  \A p \in Procs :
    Returned(p) =>
      \/ loc[p].result.skipped = CountOutcome(p, InvalidKinds)
      \/ loc[p].result.skipped = CountOutcome(p, {"duplicate", "insert_failed"})

\* C5: a skipped row (missing field, invalid date, duplicate, failed insert)
\* is not persisted, the rows after it are all processed before the run
\* leaves the row loop, and rows persisted before it are still stored.
C5_SkipNeverAborts ==
  \A p \in Procs :
    /\ \A j \in 1..Len(loc[p].outcome) :
         IF loc[p].outcome[j] = "persisted" THEN RowPersisted(p, j) ELSE ~RowPersisted(p, j)
    /\ loc[p].pc \in {"recalc_read", "recalc_write", "finish", "done"} =>
         Len(loc[p].outcome) = Len(RowsOf(p))
    /\ loc[p].pc \in {"row", "row_insert"} => Len(loc[p].outcome) = loc[p].idx - 1
    /\ loc[p].pc = "failed" => loc[p].outcome = << >>

\* a returned run persisted a row, skipped the next, and another returned run
\* skipped rows for invalid data and persisted the row after them
C5_Witness ==
  /\ \E p \in Procs :
       /\ Returned(p)
       /\ \E j \in 1..(Len(loc[p].outcome) - 1) :
            loc[p].outcome[j] = "persisted" /\ loc[p].outcome[j + 1] # "persisted"
  /\ \E p \in Procs :
       /\ Returned(p)
       /\ \E j \in 1..(Len(loc[p].outcome) - 1) :
            loc[p].outcome[j] \in InvalidKinds /\ loc[p].outcome[Len(loc[p].outcome)] = "persisted"

HasLine(f, marker) ==
  \E i \in 1..Len(Files[f].lines) : StartsWith(Files[f].lines[i].text, marker)

IsCsv(f) == EndsWith(Files[f].name, ".csv")

\* C6: an upload with no line beginning 'Flights Table' fails with the format
\* error and the failing request changes nothing in storage; a CSV upload that
\* has the flights marker never fails, with or without 'Aircraft Table'.
C6_State ==
  \A p \in Procs :
    loc[p].file # 0 =>
      /\ (IsCsv(loc[p].file) /\ ~HasLine(loc[p].file, "Flights Table")) =>
           /\ loc[p].pc = "failed"
           /\ loc[p].result.status >= 400
           /\ Contains(loc[p].result.detail, "'Flights Table' header not found")
           /\ loc[p].created = {}
           /\ PersistedBy(p) = {}
           /\ loc[p].recalc_n = 0
      /\ (IsCsv(loc[p].file) /\ HasLine(loc[p].file, "Flights Table")) => loc[p].pc # "failed"

C6_Step ==
  \A p \in Procs :
    (loc[p].pc = "idle" /\ loc'[p].pc = "failed") => storage' = storage

C6_FlightsMarkerRequired == [](C6_State) /\ [][C6_Step]_vars

\* one request failed for want of the flights marker, another returned for a
\* file that has no aircraft marker
C6_Witness ==
  /\ \E p \in Procs : loc[p].pc = "failed" /\ IsCsv(loc[p].file)
                      /\ HasLine(loc[p].file, "Aircraft Table")
  /\ \E p \in Procs : Returned(p) /\ ~HasLine(loc[p].file, "Aircraft Table")
                      /\ PersistedBy(p) # {}

ClaimedSimPrefixes == {"sim", "fsx", "x-plane", "aatd", "batd", "ftd"}

SimTail(t) == \E pre \in ClaimedSimPrefixes : StartsWith(Lower(t), pre)

\* C7: every stored aircraft whose tail begins, in any letter case, with a
\* simulator prefix has is_simulator = true and data_source = 'manual', and no
\* such tail was ever handed to the registry lookup or to the Classifier.
C7_SimulatorsNeverClassified ==
  /\ \A i \in 1..Len(aircraft) :
       SimTail(aircraft[i].tail_number) =>
         /\ aircraft[i].is_simulator
         /\ aircraft[i].data_source = "manual"
         /\ ~faa_log[i].called
  /\ \A t \in lookup_calls \cup classifier_calls : ~SimTail(t)

\* a simulator device written in upper case is stored, and so is a
\* classified aircraft
C7_Witness ==
  /\ \E i \in 1..Len(aircraft) : aircraft[i].tail_number = "FSX1"
  /\ classifier_calls # {}

USTail(t) == Len(t) >= 2 /\ SubSeq(t, 1, 1) \in {"N", "n"}

RegistryRecord(t) == Registry(normalize_tail(t))

\* C8: a stored non-simulator aircraft has data_source 'faa' exactly when its
\* tail starts with N or n and has length >= 2, the lookup is enabled, and the
\* registry was reachable and holds a record for it; otherwise 'foreflight'.
\* With 'faa' the gear type and the complex and high-performance flags are
\* the Classifier's outputs on the registry's make and model.
C8_FaaProvenance ==
  \A i \in 1..Len(aircraft) :
    LET a == aircraft[i]
        rec == RegistryRecord(a.tail_number)
        hit == /\ USTail(a.tail_number) /\ enable_faa_lookup
               /\ faa_log[i].available /\ rec.found
    IN ~SimTail(a.tail_number) =>
         /\ a.data_source = (IF hit THEN "faa" ELSE "foreflight")
         /\ hit =>
              /\ a.make = rec.manufacturer /\ a.model = rec.model
              /\ a.gear_type = infer_gear_type(rec.manufacturer, rec.model)
              /\ a.is_complex = should_be_complex(rec.manufacturer, rec.model, a.gear_type)
              /\ a.is_high_performance = should_be_high_performance(rec.manufacturer, rec.model)

\* the lower-case tail n1 was found in the registry and classified from the
\* registry's Cessna R182, and a US tail the registry does not hold fell back
C8_Witness ==
  /\ \E i \in 1..Len(aircraft) :
       /\ aircraft[i].tail_number = "n1" /\ aircraft[i].data_source = "faa"
       /\ aircraft[i].gear_type = "Retractable" /\ aircraft[i].is_complex
  /\ \E i \in 1..Len(aircraft) :
       /\ aircraft[i].tail_number = "N2" /\ aircraft[i].data_source = "foreflight"
       /\ faa_log[i].called /\ faa_log[i].available

\* C9: once _extract_and_import_aircraft has returned, every non-empty
\* AircraftID of the flight rows is a key of aircraft_map and maps to the
\* stored aircraft with that tail, compared without regard to case.
C9_MapComplete ==
  \A p \in Procs :
    loc[p].pc \in {"hashes", "row", "row_insert", "recalc_read", "recalc_write",
                   "finish", "done"} =>
      \A t \in RowTails(loc[p].file) :
        /\ t \in DOMAIN loc[p].aircraft_map
        /\ Upper(aircraft[loc[p].aircraft_map[t]].tail_number) = Upper(t)

\* C10: storage never holds two aircraft whose tails are equal without
\* regard to case.
C10_OneAircraftPerTail ==
  \A i, j \in 1..Len(aircraft) :
    i # j => Upper(aircraft[i].tail_number) # Upper(aircraft[j].tail_number)

\* ------------------------------------------------ recalculation properties
Snapshots == {import_history[s] : s \in 1..Len(import_history)}

\* C11: every snapshot is computed from a flight set that holds, of each
\* import run, either none or all of the rows that run persists; no
\* recalculation reads the table while a run has persisted only part of its
\* rows.  (flights only grows, so a snapshot over n rows read rows 1..n.)
C11_RecalculationAfterFullCommit ==
  \A s \in 1..Len(import_history) : \A q \in Procs :
    Returned(q) =>
      LET mine == PersistedBy(q)
          seen == mine \cap (1..import_history[s].flights_imported)
      IN seen = {} \/ seen = mine

\* C12: a recalculation that finds no flights ends with the error 404 "No
\* flights found" and inserts nothing; no stored snapshot was computed from
\* an empty flight set.
C12_State ==
  /\ \A s \in Snapshots : s.flights_imported > 0
  /\ (rc.pc = "done" /\ rc.rows = << >>) =>
       (rc.status = 404 /\ rc.detail = "No flights found")

C12_Step ==
  (rc'.n # rc.n /\ NoFlights(flights)) =>
    (rc'.pc = "done" /\ rc'.status = 404 /\ import_history' = import_history)

C12_EmptyInputIsNoData == [](C12_State) /\ [][C12_Step]_vars

\* a request on the empty table has ended, and none has stored a snapshot
C12_Witness == rc.pc = "done" /\ rc.status = 404 /\ flights = << >> /\ import_history = << >>

\* C13: a step that stores a snapshot leaves every flight and every aircraft
\* as they were and appends exactly one record to import_history, the
\* earlier records unchanged; a recalculation step changes nothing else in
\* storage.
SnapshotStored(p) == loc[p].pc = "recalc_write" /\ loc'[p].pc = "finish"

C13_Step ==
  /\ (\E p \in Procs : SnapshotStored(p)) =>
       /\ flights' = flights
       /\ aircraft' = aircraft
       /\ Len(import_history') = Len(import_history) + 1
       /\ SubSeq(import_history', 1, Len(import_history)) = import_history
  /\ import_history' # import_history => \E p \in Procs : SnapshotStored(p)

C13_OnlyAppendsSnapshot == [][C13_Step]_vars

\* two snapshots are stored, the earlier one computed from fewer flights
C13_Witness ==
  /\ Len(import_history) = 2
  /\ import_history[1].flights_imported < import_history[2].flights_imported
  /\ import_history[1].hours_imported.total < import_history[2].hours_imported.total

\* the metrics of a snapshot that are durations (sums of hours)
DurationMetrics ==
  {"total", "pic", "cross_country", "night", "solo", "dual_received", "dual_given",
   "simulator_time", "actual_instrument", "simulated_instrument", "complex",
   "complex_dual", "pic_xc", "dual_xc", "instrument_dual_airplane",
   "instrument_dual_simulator", "instrument_total", "recent_instrument",
   "cpl_sim_instrument_training", "cpl_sim_instrument_airplane",
   "cpl_complex_turbine_taa", "cpl_checkride_prep_recent", "cpl_solo_se", "cpl_night_vfr"}

\* C14: every duration metric of every stored snapshot is >= 0, whatever
\* numeric strings the CSV duration cells of the persisted flights held.
C14_DurationsNonNegative ==
  \A s \in Snapshots : \A k \in DurationMetrics : s.hours_imported[k] >= 0

\* the rows the last request read and the snapshot it stored
LastRows == Rows(flights, rc.rows)

LastSnapshot == import_history[Len(import_history)]

RequestStored == rc.pc = "done" /\ rc.status = 200

PicXcShare(flight) ==
  Min(_parse_decimal(flight.pic_time), _parse_decimal(flight.cross_country_time))

RECURSIVE SumPicXcShares(_, _)
SumPicXcShares(rows, i) ==
  IF i > Len(rows) THEN 0 ELSE PicXcShare(rows[i]) + SumPicXcShares(rows, i + 1)

\* C15: pic_xc of a snapshot is the sum over the flights read of
\* min(pic_time, cross_country_time), and a flight alone gives a pic_xc of
\* at most its min(pic_time, cross_country_time).
C15_PicXcIsSumOfMinimums ==
  RequestStored =>
    /\ LastSnapshot.hours_imported.pic_xc = SumPicXcShares(LastRows, 1)
    /\ \A i \in 1..Len(LastRows) :
         HoursDict(<< LastRows[i] >>, today).pic_xc <= PicXcShare(LastRows[i])

\* the metric map of a snapshot without its evidence map
Metrics(hours) == [k \in (DOMAIN hours) \ {"_qualifying_flights"} |-> hours[k]]

\* C16: for the day of the request, the metrics of the stored snapshot are
\* those computed from every arrangement of the flights read.
C16_OrderIndependent ==
  RequestStored =>
    \A perm \in Arrangements(Len(LastRows)) :
      Metrics(HoursDict(Rows(LastRows, perm), today)) = Metrics(LastSnapshot.hours_imported)

\* three flights were read, two of them of the same date, with different
\* hours and one of them qualifying as long cross-country
C16_Witness ==
  /\ RequestStored
  /\ Len(LastRows) = 3
  /\ Cardinality(OrderByDate(flights)) > 1
  /\ \E i, j \in 1..3 : LastRows[i].total_time # LastRows[j].total_time
  /\ LastSnapshot.hours_imported.private_long_xc = 1

\* the number of tokens that start with "K" and have 4 characters, counted
\* by hand for the routes of the stored flights
ClaimedAirportTokens ==
  ("KAMW KDSM KALO KAMW" :> 4) @@ ("KAMW KDSM KAMW" :> 3) @@ ("KAMW IA27 KDSM" :> 2)
    @@ ("KALO KAMW KDSM" :> 3) @@ ("" :> 0)

LongXcQualifies(flight) ==
  /\ flight.distance.some /\ flight.distance.v >= 150
  /\ flight.solo_time.some /\ flight.solo_time.v > 0
  /\ ClaimedAirportTokens[flight.route] >= 3

\* C17: private_long_xc is 1 exactly when a flight read has distance >= 150,
\* solo time > 0 and a route of at least 3 airport tokens, else 0; its
\* evidence list is empty when none qualifies and otherwise holds exactly
\* one entry, that of the first qualifying flight in the order read.
C17_LongXcFirstQualifying ==
  RequestStored =>
    LET hours == LastSnapshot.hours_imported
        evidence == hours._qualifying_flights.private_long_xc
        q == {i \in 1..Len(LastRows) : LongXcQualifies(LastRows[i])}
    IN /\ hours.private_long_xc = (IF q # {} THEN 1 ELSE 0)
       /\ IF q = {} THEN evidence = << >>
          ELSE LET first == LastRows[CHOOSE i \in q : \A j \in q : i <= j]
               IN evidence = << [date |-> IsoFormat(first.date),
                                 aircraft_id |-> first.tail_number,
                                 route |-> first.route,
                                 distance |-> first.distance.v,
                                 type |-> "Solo"] >>

\* the flight of 160 nm, 1.0 solo and route "KAMW KDSM KALO KAMW" was stored
\* after another qualifying flight of a later date and is the evidence
C17_Witness ==
  /\ RequestStored
  /\ Cardinality({i \in 1..Len(LastRows) : LongXcQualifies(LastRows[i])}) = 2
  /\ flights[1].date = Day(2024, 1, 10)
  /\ \E i \in 2..Len(flights) :
       /\ flights[i].distance = SomeNum(160) /\ flights[i].solo_time = SomeNum(10)
       /\ flights[i].route = "KAMW KDSM KALO KAMW"
  /\ LastSnapshot.hours_imported.private_long_xc = 1
  /\ LastSnapshot.hours_imported._qualifying_flights.private_long_xc[1].date = "2024-01-05"

\* ---------------------------------------------------- Classifier properties
Classified == cl.pc = "returned"

Missing(v) == v \in {None, ""}

\* the families in the order of the claim
FamilyOrder ==
  << "Cessna", "Piper", "Beechcraft", "Mooney", "Cirrus", "Diamond", "Grumman",
     "Rockwell", "Bellanca", "Socata", "Maule" >>

\* the pairs of Makes and Models a family takes: those of its make, and
\* the models that name it
FamilyTakes(family, make, model) ==
  \/ make = family
  \/ family = "Piper" /\ model = "Piper Arrow"
  \/ family = "Socata" /\ model = "TB-20 Trinidad"

\* position of the first family that takes the pair, 0 when none does
FirstFamily(make, model) ==
  IF Missing(make) \/ Missing(model) THEN 0
  ELSE LET hits == {i \in 1..Len(FamilyOrder) : FamilyTakes(FamilyOrder[i], make, model)}
       IN IF hits = {} THEN 0 ELSE CHOOSE i \in hits : \A j \in hits : i <= j

\* the models of Models each family holds to be retractable
RetractableModels(family) ==
  IF family = "Cessna" THEN {"R182", "RV-7"}
  ELSE IF family = "Piper" THEN {"PA-28R-200", "Piper Arrow"}
  ELSE IF family = "Mooney" THEN Models
  ELSE IF family = "Socata" THEN {"TB-20 Trinidad"}
  ELSE {}

FamilyVerdict(make, model) ==
  IF model \in RetractableModels(FamilyOrder[FirstFamily(make, model)])
  THEN "Retractable" ELSE "Fixed"

GearExamples ==
  /\ (cl.make = "Cessna" /\ cl.model = "R182") => cl.gear_type = "Retractable"
  /\ (cl.make = "Piper" /\ cl.model = "PA-28R-200") => cl.gear_type = "Retractable"
  /\ (cl.make = "Cessna" /\ cl.model = "172S") => cl.gear_type = "Fixed"
  /\ (cl.make = "Cirrus" /\ cl.model = "SR22") => cl.gear_type = "Fixed"

\* C18 as stated: the first family that takes (make, model) decides the
\* gear type, the four examples hold, and a pair no family takes gives
\* Unknown (None).
C18_FirstFamilyDecides ==
  Classified =>
    /\ GearExamples
    /\ cl.gear_type = IF FirstFamily(cl.make, cl.model) = 0 THEN None
                      ELSE FamilyVerdict(cl.make, cl.model)

\* C18 amended: as stated, except that a pair no family takes gives Fixed
\* when its model names a Columbia (TTX, COLUMBIA, CORVALIS) and Unknown
\* otherwise; a missing make or model gives Unknown.
C18_FirstFamilyThenColumbia ==
  Classified =>
    /\ GearExamples
    /\ cl.gear_type = IF FirstFamily(cl.make, cl.model) # 0
                      THEN FamilyVerdict(cl.make, cl.model)
                      ELSE IF ~Missing(cl.make) /\ cl.model = "Columbia 400" THEN "Fixed"
                      ELSE None

\* a pair two families take was decided by the earlier one
C18_Witness ==
  /\ Classified
  /\ cl.make = "Cessna" /\ cl.model = "Piper Arrow"
  /\ cl.gear_type = "Fixed"

\* the models of Models whose upper-cased text contains a high-performance
\* token
ClaimedHighPerformance == {"R182", "SR22", "PA-28R-200", "M20J", "Sr22t "}

\* C19 as stated: whatever the make, the result is true exactly when the
\* model contains a high-performance token.
C19_ModelAloneDecides ==
  Classified => (cl.is_high_performance <=> cl.model \in ClaimedHighPerformance)

\* C19 amended: for a make that is present and not empty the result is true
\* exactly when the model contains a high-performance token; without a make
\* it is false.
C19_ModelDecidesGivenMake ==
  Classified =>
    (cl.is_high_performance <=> (~Missing(cl.make) /\ cl.model \in ClaimedHighPerformance))

\* a model in mixed case with a trailing blank, of a make that makes no
\* such aircraft, was found high-performance
C19_Witness ==
  /\ Classified
  /\ cl.make = "Maule" /\ cl.model = "Sr22t "
  /\ cl.is_high_performance

\* the dates of the stored flights that lie in [day - 60 days, day], by the
\* calendar: 2024-01-10 is 60 days before 2024-03-10
WindowDates(day) ==
  IF day = Day(2024, 3, 10)
  THEN {Day(2024, 1, 10), Day(2024, 2, 20), Day(2024, 2, 21)}
  ELSE {Day(2024, 2, 20), Day(2024, 2, 21)}

InsideWindow(flight) == flight.date \in WindowDates(today)

Val(x) == IF x.some THEN x.v ELSE 0

\* total duration >= 2.0 hours, distance >= 100 nm and dual received
DayXcClaimed(flight) ==
  Val(flight.total_time) >= 20 /\ Val(flight.distance) >= 100
    /\ Val(flight.dual_received_time) > 0

\* night time 0, or less than the total duration
DayFlight(flight) ==
  Val(flight.night_time) = 0 \/ Val(flight.total_time) > Val(flight.night_time)

NightXcClaimed(flight) == Val(flight.night_time) >= 20 /\ Val(flight.distance) >= 100

ToweredOpsOf(flight) ==
  IF Val(flight.solo_time) > 0
  THEN (IF flight.departure_airport \in Towered THEN flight.day_takeoffs ELSE 0)
       + (IF flight.arrival_airport \in Towered THEN flight.day_landings_full_stop ELSE 0)
  ELSE 0

RECURSIVE SumToweredOps(_, _)
SumToweredOps(rows, i) ==
  IF i > Len(rows) THEN 0 ELSE ToweredOpsOf(rows[i]) + SumToweredOps(rows, i + 1)

\* C23: private_towered_ops is min(3, S), S being the sum over the flights
\* read that have solo time of their day takeoffs at a towered departure
\* airport and day full-stop landings at a towered arrival airport; the value
\* is in 0..3.
C23_ToweredOpsCappedSum ==
  RequestStored =>
    /\ LastSnapshot.hours_imported.private_towered_ops = Min(3, SumToweredOps(LastRows, 1))
    /\ LastSnapshot.hours_imported.private_towered_ops \in 0..3


\* ------------------------------------------------- save-path properties
\* C24: every stored flight is a simulator session exactly when its
\* simulated flight time is > 0.
C24_SimulatorSessionIffSimulatedTime ==
  \A i \in 1..Len(flights) :
    flights[i].is_simulator_session
      <=> (flights[i].simulated_flight_time.some /\ flights[i].simulated_flight_time.v > 0)


\* ------------------------------------------------- row-loop properties
\* the 1-based numbers of the lines of file f that hold its flight data rows:
\* the lines after the flights header that are not blank
DataLineNumbers(f) ==
  {n \in (Markers(f).flights_table_start + 2)..Len(Files[f].lines) :
     Files[f].lines[n].text # ""}

\* the 1-based line number of data row j of file f
LineOf(f, j) ==
  CHOOSE n \in DataLineNumbers(f) : Cardinality({m \in DataLineNumbers(f) : m <= n}) = j

\* the rows a run has skipped so far, in order
SkippedRows(p) ==
  SelectSeq([j \in 1..Len(loc[p].outcome) |-> [idx |-> j, kind |-> loc[p].outcome[j]]],
            LAMBDA o : o.kind # "persisted")

\* the row messages of a run, without the recalculation warning
RowErrors(p) == SelectSeq(loc[p].errors, LAMBDA e : e.msg # MsgRecalc)

\* C25: the number recorded in each row error is the 1-based line number of
\* that data row in the uploaded text, also when blank lines lie between the
\* data rows.
C25_RowNumberIsLineNumber ==
  \A p \in Procs :
    loc[p].file # 0 =>
      /\ Len(RowErrors(p)) = Len(SkippedRows(p))
      /\ \A k \in 1..Len(RowErrors(p)) :
           RowErrors(p)[k].row = LineOf(loc[p].file, SkippedRows(p)[k].idx)


\* ------------------------------------- recalculation-trigger properties
\* the run called the recalculation and the call raised
RecalcFailed(p) == loc[p].recalcs = 1 /\ loc[p].recalc_n = 0

Warnings(errors) == SelectSeq(errors, LAMBDA e : e.msg = MsgRecalc)

C28_State ==
  \A p \in Procs :
    /\ loc[p].recalcs <= 1
    /\ loc[p].recalcs = 1 => loc[p].idx > Len(RowsOf(p)) /\ loc[p].imported > 0
    /\ loc[p].pc \in {"finish", "done"} => (loc[p].recalcs = 1 <=> loc[p].imported > 0)
    /\ Returned(p) =>
         /\ loc[p].result.status = 200
         /\ loc[p].result.imported = CountOutcome(p, {"persisted"})
         /\ loc[p].result.skipped = Len(loc[p].outcome) - CountOutcome(p, {"persisted"})
         /\ Len(Warnings(loc[p].result.errors)) = (IF RecalcFailed(p) THEN 1 ELSE 0)
         /\ Len(loc[p].result.errors)
              = loc[p].result.skipped + (IF RecalcFailed(p) THEN 1 ELSE 0)

C28_Step ==
  /\ \A p \in Procs :
       loc[p].pc \in {"recalc_read", "recalc_write"} =>
         /\ loc'[p].imported = loc[p].imported
         /\ loc'[p].skipped = loc[p].skipped
         /\ loc'[p].errors \in {loc[p].errors, Append(loc[p].errors, RowError(0, MsgRecalc))}
  /\ import_history' # import_history =>
       \E p \in Procs :
         /\ loc[p].pc = "recalc_write" /\ loc'[p].pc = "finish"
         /\ loc[p].imported > 0

\* C28: a run calls the recalculation at most once, only after its last row
\* and exactly when imported > 0, so a run whose rows are all skipped stores
\* no snapshot; when the call fails the run still returns, with imported and
\* skipped as they were and one warning appended to the errors.
C28_RecalculationOncePerImport == [](C28_State) /\ [][C28_Step]_vars

\* a run persisted rows, found the flights table empty when it called the
\* recalculation, and returned its counts with the warning last
C28_Witness ==
  \E p \in Procs :
    /\ Returned(p)
    /\ RecalcFailed(p)
    /\ loc[p].result.imported > 0
    /\ loc[p].result.skipped > 0
    /\ loc[p].result.errors[Len(loc[p].result.errors)] = RowError(0, MsgRecalc)
    /\ import_history = << >>


\* the messages recorded for data row j of a run's file
MessagesOf(p, j) ==
  {k \in 1..Len(loc[p].result.errors) :
     loc[p].result.errors[k].row = RowNum([loc[p] EXCEPT !.idx = j])}

\* C26: at return, imported + skipped is the number of data rows of the
\* flights table, every row is either persisted with no message or skipped
\* with exactly one message, imported is the number of flights the run
\* inserted, and the error list holds the skipped rows' messages plus at most
\* one recalculation warning.
C26_CountingInvariant ==
  \A p \in Procs :
    Returned(p) =>
      LET r == loc[p].result
          n == Len(RowsOf(p))
      IN /\ r.imported + r.skipped = n
         /\ r.imported = Cardinality(PersistedBy(p))
         /\ \A j \in 1..n :
              IF RowPersisted(p, j) THEN MessagesOf(p, j) = {}
              ELSE Cardinality(MessagesOf(p, j)) = 1
         /\ r.skipped = Cardinality({j \in 1..n : ~RowPersisted(p, j)})
         /\ Len(Warnings(r.errors)) <= 1
         /\ Len(r.errors) = r.skipped + Len(Warnings(r.errors))

\* a returned run skipped its first row as a duplicate and its second for a
\* missing date and persisted its third
C26_Witness ==
  \E p \in Procs :
    /\ Returned(p)
    /\ loc[p].result.imported = 1
    /\ loc[p].result.skipped = 2
    /\ loc[p].outcome = << "duplicate", "missing_date", "persisted" >>
    /\ Len(loc[p].result.errors) = 2


\* ------------------------------------------ boolean-requirement properties
BooleanRequirements ==
  {"private_long_xc", "ir_250nm_xc", "cpl_2hr_day_xc", "cpl_2hr_night_xc", "cpl_300nm_xc"}

\* the predicate of each boolean requirement
Satisfies(flight, requirement) ==
  CASE requirement = "private_long_xc" -> LongXcQualifies(flight)
    [] requirement = "ir_250nm_xc" ->
         /\ Val(flight.distance) >= 250
         /\ flight.approaches.kind = "list" /\ flight.approaches.n >= 3
         /\ ClaimedAirportTokens[flight.route] >= 3
         /\ (Val(flight.actual_instrument_time) > 0
               \/ Val(flight.simulated_instrument_time) > 0)
    [] requirement = "cpl_2hr_day_xc" -> DayXcClaimed(flight) /\ DayFlight(flight)
    [] requirement = "cpl_2hr_night_xc" ->
         NightXcClaimed(flight) /\ Val(flight.dual_received_time) > 0
    [] requirement = "cpl_300nm_xc" ->
         /\ Val(flight.distance) >= 300
         /\ ClaimedAirportTokens[flight.route] >= 3
         /\ (Val(flight.solo_time) > 0
               \/ (Val(flight.pic_time) > 0 /\ Val(flight.dual_received_time) > 0))

\* the evidence entry describes the flight
EvidenceOf(entry, flight) ==
  /\ entry.date = IsoFormat(flight.date)
  /\ entry.route = flight.route
  /\ entry.distance = Val(flight.distance)

\* C27: for each of the five boolean requirements of a stored snapshot the
\* metric is 1 exactly when its evidence list has exactly one entry and 0
\* exactly when the list is empty; no list holds more than one entry, and the
\* entry is a flight read that satisfies the requirement's predicate.
C27_FlagMatchesEvidence ==
  RequestStored =>
    \A requirement \in BooleanRequirements :
      LET metric == LastSnapshot.hours_imported[requirement]
          evidence == LastSnapshot.hours_imported._qualifying_flights[requirement]
      IN /\ metric \in {0, 1}
         /\ Len(evidence) <= 1
         /\ metric = 1 <=> Len(evidence) = 1
         /\ metric = 0 <=> evidence = << >>
         /\ \A k \in 1..Len(evidence) :
              \E i \in 1..Len(LastRows) :
                Satisfies(LastRows[i], requirement) /\ EvidenceOf(evidence[k], LastRows[i])

\* all five requirements are met, two of the flights read satisfy the
\* instrument requirement, and a flight read satisfies none
C27_Witness ==
  /\ RequestStored
  /\ \A requirement \in BooleanRequirements : LastSnapshot.hours_imported[requirement] = 1
  /\ Cardinality({i \in 1..Len(LastRows) : Satisfies(LastRows[i], "ir_250nm_xc")}) = 2


AircraftLines(f, tail) ==
  LET mk == Markers(f)
  IN IF mk.aircraft_table_start = -1 THEN {}
     ELSE {n \in (mk.aircraft_table_start + 2)..(mk.flights_table_start - 1) :
             Files[f].lines[n].row.AircraftID = tail}

\* the GearType cell of the Aircraft Table row of tail, None when the cell is
\* empty or the file has no such row
TableGear(f, tail) ==
  IF AircraftLines(f, tail) = {} THEN None
  ELSE LET n == CHOOSE m \in AircraftLines(f, tail) : \A k \in AircraftLines(f, tail) : k <= m
           cell == Files[f].lines[n].row.GearType
       IN IF cell = "" THEN None ELSE cell

\* C30: every aircraft created with data_source 'foreflight' is stored with
\* is_complex = false and is_high_performance = false and with the gear type
\* of its Aircraft Table row, or none when it was derived from flight rows,
\* whatever its make and model.
C30_ForeflightNeverClassified ==
  \A p \in Procs :
    \A id \in loc[p].created :
      LET a == aircraft[id]
      IN a.data_source = "foreflight" =>
           /\ ~a.is_complex
           /\ ~a.is_high_performance
           /\ a.gear_type = TableGear(loc[p].file, a.tail_number)

\* the Piper PA-28R-200 of the Aircraft Table, which the Classifier takes
\* for retractable and complex, is stored with gear type 'RG' and not
\* complex; an aircraft derived from flight rows is stored without gear type
C30_Witness ==
  /\ \E p \in Procs :
       \E id \in loc[p].created :
         /\ aircraft[id].data_source = "foreflight"
         /\ aircraft[id].model = "PA-28R-200"
         /\ aircraft[id].gear_type = "RG"
         /\ infer_gear_type(aircraft[id].make, aircraft[id].model) = "Retractable"
         /\ should_be_complex(aircraft[id].make, aircraft[id].model, "Retractable")
         /\ ~aircraft[id].is_complex
  /\ \E p \in Procs :
       \E id \in loc[p].created :
         /\ aircraft[id].data_source = "foreflight"
         /\ AircraftLines(loc[p].file, aircraft[id].tail_number) = {}
         /\ aircraft[id].gear_type = None


TypeOK ==
  /\ runs_started \in 0..MaxRuns
  /\ \A p \in Procs : loc[p].pc \in {"idle", "failed", "ac_check", "ac_insert", "sim_check",
                                     "sim_insert", "hashes", "row", "row_insert",
                                     "recalc_read", "recalc_write", "finish", "done"}
====
